---------------------------- MODULE Spec2Model ----------------------------
(***************************************************************************)
(* A model of src/video_agent/file_transfer.py: the FileTransfer handler   *)
(* that moves files between the local machine and a GPU instance.          *)
(*                                                                         *)
(* The program is sequential.  It is modelled as a call stack of frames,   *)
(* one frame per active method, each with its program counter and the      *)
(* locals the method keeps.  One action models one statement group of the  *)
(* source between two calls to a collaborator (the shell, the relay hosts, *)
(* the SSH manager, the file system); the collaborator's answer is the     *)
(* action's input, drawn from a small set.                                 *)
(*                                                                         *)
(* Strings that the code inspects are modelled by what the code inspects:  *)
(*   - a remote command's output is a sequence of words, and               *)
(*     `"token" in output` is membership of the word;                      *)
(*   - an SSH command string and every string of the status data is a      *)
(*     sequence of one-character strings, on which the two regular         *)
(*     expressions of _get_instance_ip are evaluated.                      *)
(***************************************************************************)
EXTENDS Integers, Sequences, FiniteSets, TLC

(***************************************************************************)
(* Bounds of the model and constants of the program.                       *)
(***************************************************************************)
\* Largest max_retries a caller passes (the smallest is -1).
MaxRetries == 3

\* port = 22  (default SSH port)
DefaultPort == 22
\* retry_delay = 5 * (attempt + 1)
BackoffUnit == 5
\* if file_size_mb < 25
SmallLimit == 25
\* elif file_size_mb < 2000
LargeLimit == 2000

RetryInputs == (0 - 1)..MaxRetries

(***************************************************************************)
(* JSON-like values of the status data: [t |-> tag, v |-> payload].        *)
(*   "str"  : v is a sequence of one-character strings                     *)
(*   "int"  : v is an integer          "bool" : v is a BOOLEAN             *)
(*   "null" : v is 0                   "list" : v is a sequence of values  *)
(*   "dict" : v is a function from key strings to values                   *)
(***************************************************************************)
JStr(cs) == [t |-> "str", v |-> cs]
JInt(n) == [t |-> "int", v |-> n]
JNull == [t |-> "null", v |-> 0]
JList(xs) == [t |-> "list", v |-> xs]
JDict(f) == [t |-> "dict", v |-> f]

\* Python truthiness of a JSON value (`x and ...`, `if x:`).
Truthy(j) ==
    CASE j.t = "str" -> Len(j.v) > 0
      [] j.t = "int" -> j.v # 0
      [] j.t = "bool" -> j.v
      [] j.t = "null" -> FALSE
      [] j.t = "list" -> Len(j.v) > 0
      [] j.t = "dict" -> DOMAIN j.v # {}

\* isinstance(x, dict) / isinstance(x, list)
IsDict(j) == j.t = "dict"
IsList(j) == j.t = "list"

\* `key in d` for a dict d.
HasKey(d, key) == key \in DOMAIN d.v

\* `key in d and d[key]` for a dict d.
HasTruthy(d, key) == HasKey(d, key) /\ Truthy(d.v[key])

(***************************************************************************)
(* Characters and the two regular expressions of _get_instance_ip.         *)
(***************************************************************************)
Digits == <<"0", "1", "2", "3", "4", "5", "6", "7", "8", "9">>

IsDigit(c) == \E i \in DOMAIN Digits : Digits[i] = c

DigitVal(c) == (CHOOSE i \in DOMAIN Digits : Digits[i] = c) - 1

\* \s
IsSpace(c) == c \in {" ", "\t", "\n"}

\* [^:\s]
IsHostChar(c) == c # ":" /\ ~IsSpace(c)

\* Membership of a character in one of the classes the expressions use.
InClass(cls, c) ==
    CASE cls = "space" -> IsSpace(c)
      [] cls = "digit" -> IsDigit(c)
      [] cls = "host" -> IsHostChar(c)

\* The end of the longest run of characters of class cls that starts at i
\* (i - 1 when s[i] is not of the class): a greedy `+` or `*`.
RECURSIVE RunEnd(_, _, _)
RunEnd(s, i, cls) ==
    IF i <= Len(s) /\ InClass(cls, s[i]) THEN RunEnd(s, i + 1, cls) ELSE i - 1

\* re.search(r'@([^:\s]+)', s): the start positions at which it matches.
HostMatchAt(s) ==
    {i \in 1..Len(s) : s[i] = "@" /\ i + 1 <= Len(s) /\ IsHostChar(s[i + 1])}

\* host_match is not None
host_match(s) == HostMatchAt(s) # {}

Min(S) == CHOOSE x \in S : \A y \in S : x <= y

\* host_match.group(1): the leftmost match, greedy.
host_group(s) ==
    LET i == Min(HostMatchAt(s))
    IN SubSeq(s, i + 1, RunEnd(s, i + 1, "host"))

\* A variant of the port expression that takes any text after `-p ` for the
\* port: r'-p\s+(\d*)'.
PortMatchAt_AnyPort(s) ==
    {i \in 1..Len(s) :
        /\ s[i] = "-"
        /\ i + 2 <= Len(s)
        /\ s[i + 1] = "p"
        /\ IsSpace(s[i + 2])}

\* re.search(r'-p\s+(\d+)', s): the start positions at which it matches.
PortMatchAt(s) ==
    {i \in 1..Len(s) :
        /\ s[i] = "-"
        /\ i + 3 <= Len(s)
        /\ s[i + 1] = "p"
        /\ IsSpace(s[i + 2])
        /\ LET e == RunEnd(s, i + 2, "space")
           IN e + 1 <= Len(s) /\ IsDigit(s[e + 1])}

port_match(s) == PortMatchAt(s) # {}

\* port_match.group(1)
port_group(s) ==
    LET i == Min(PortMatchAt(s))
        e == RunEnd(s, i + 2, "space")
    IN SubSeq(s, e + 1, RunEnd(s, e + 1, "digit"))

\* int(ds) for a non-empty sequence of decimal digits.
RECURSIVE DigitsToInt(_)
DigitsToInt(ds) ==
    IF ds = <<>> THEN 0
    ELSE 10 * DigitsToInt(SubSeq(ds, 1, Len(ds) - 1)) + DigitVal(ds[Len(ds)])

(***************************************************************************)
(* FileTransfer._get_instance_ip, lines 86-220.                            *)
(* Its result: a (host, port) pair, None, or an exception that escapes.    *)
(***************************************************************************)
NotFound == [kind |-> "none", host |-> JNull, port |-> 0, exc |-> "none"]
Found(h, p) == [kind |-> "ok", host |-> h, port |-> p, exc |-> "none"]
Escapes(e) == [kind |-> "raise", host |-> JNull, port |-> 0, exc |-> e]

\* The status data as get_gpu_status() hands it over: a structure (a JSON
\* value) or a text, [t |-> "text", ok |-> well-formed, v |-> what it denotes].
JText(ok, j) == [t |-> "text", ok |-> ok, v |-> j]

\* The characters of the two keys looked up in the status object.
KeyChars(key) ==
    CASE key = "instances" -> <<"i", "n", "s", "t", "a", "n", "c", "e", "s">>
      [] key = "data" -> <<"d", "a", "t", "a">>

\* sub occurs in s (Python's `in` on two strings).
IsSubstring(sub, s) ==
    \E i \in 1..(Len(s) - Len(sub) + 1) : SubSeq(s, i, i + Len(sub) - 1) = sub

\* `key in status` can be evaluated (a dict, a list or a string).
InDefined(status) == status.t \in {"dict", "list", "str"}

\* `key in status`, lines 108, 110, 112.
In(key, status) ==
    CASE status.t = "dict" -> HasKey(status, key)
      [] status.t = "list" ->
            \E i \in DOMAIN status.v :
                status.v[i].t = "str" /\ status.v[i].v = KeyChars(key)
      [] status.t = "str" -> IsSubstring(KeyChars(key), status.v)

\* A variant of lines 103-113 that looks for the shapes in the reverse order.
ExtractInstances_LastFirst(status) ==
    LET ok(j) == [kind |-> "ok", v |-> j, exc |-> "none"]
        bad(e) == [kind |-> "raise", v |-> JNull, exc |-> e]
    IN  IF ~InDefined(status) THEN bad("TypeError")
        ELSE IF (In("instances", status) \/ In("data", status)) /\ ~IsDict(status)
             THEN bad("TypeError")
        ELSE IF In("data", status) /\ IsDict(status.v["data"])
                /\ HasKey(status.v["data"], "instances")
             THEN ok(status.v["data"].v["instances"])
        ELSE IF In("data", status) /\ IsList(status.v["data"])
             THEN ok(status.v["data"])
        ELSE IF In("instances", status) /\ IsList(status.v["instances"])
             THEN ok(status.v["instances"])
        ELSE ok(JList(<<>>))

\* Lines 103-113: the list of instance records, from the first shape present.
\* [kind |-> "ok", v |-> instances] or [kind |-> "raise", ...].
ExtractInstances(status) ==
    LET ok(j) == [kind |-> "ok", v |-> j, exc |-> "none"]
        bad(e) == [kind |-> "raise", v |-> JNull, exc |-> e]
    IN  IF ~InDefined(status) THEN bad("TypeError")
        ELSE IF In("instances", status) /\ ~IsDict(status) THEN bad("TypeError")
        ELSE IF In("instances", status) /\ IsList(status.v["instances"])
             THEN ok(status.v["instances"])
        ELSE IF In("data", status) /\ ~IsDict(status) THEN bad("TypeError")
        ELSE IF In("data", status) /\ IsList(status.v["data"])
             THEN ok(status.v["data"])
        ELSE IF In("data", status) /\ IsDict(status.v["data"])
                /\ HasKey(status.v["data"], "instances")
             THEN ok(status.v["data"].v["instances"])
        ELSE ok(JList(<<>>))

\* inst.get('id') == self.instance_id, line 116, for a dict inst.
IdMatches(inst, id) ==
    HasKey(inst, "id") /\ inst.v["id"].t = "str" /\ inst.v["id"].v = <<id>>

\* Lines 115-118 on a list: the first record whose id matches, found before
\* any element that is not a dict (on which inst.get raises).
RECURSIVE FindFrom(_, _, _)
FindFrom(xs, i, id) ==
    IF i > Len(xs) THEN [kind |-> "none", v |-> JNull, exc |-> "none"]
    ELSE IF ~IsDict(xs[i]) THEN [kind |-> "raise", v |-> JNull, exc |-> "AttributeError"]
    ELSE IF IdMatches(xs[i], id) THEN [kind |-> "ok", v |-> xs[i], exc |-> "none"]
    ELSE FindFrom(xs, i + 1, id)

\* Lines 115-122: `for inst in instances` over whatever instances is.
FindInstance(instances, id) ==
    CASE instances.t = "list" -> FindFrom(instances.v, 1, id)
      [] instances.t = "dict" ->
            IF DOMAIN instances.v = {}
            THEN [kind |-> "none", v |-> JNull, exc |-> "none"]
            ELSE [kind |-> "raise", v |-> JNull, exc |-> "AttributeError"]
      [] instances.t = "str" ->
            IF Len(instances.v) = 0
            THEN [kind |-> "none", v |-> JNull, exc |-> "none"]
            ELSE [kind |-> "raise", v |-> JNull, exc |-> "AttributeError"]
      [] OTHER -> [kind |-> "raise", v |-> JNull, exc |-> "TypeError"]

\* Lines 135-147 and 197-209: the parse of an SSH command string; NotFound
\* when the host expression does not match.
ParseSshCommand(cmd) ==
    IF host_match(cmd)
    THEN Found(JStr(host_group(cmd)),
               IF port_match(cmd) THEN DigitsToInt(port_group(cmd)) ELSE DefaultPort)
    ELSE NotFound

\* A string with its leading and trailing whitespace removed.
Strip(s) ==
    LET idx == {i \in 1..Len(s) : ~IsSpace(s[i])}
    IN  IF idx = {} THEN <<>>
        ELSE SubSeq(s, Min(idx), CHOOSE j \in idx : \A k \in idx : k <= j)

AllDigits(s) == Len(s) > 0 /\ \A i \in 1..Len(s) : IsDigit(s[i])

\* int(x) succeeds, lines 166-170 (otherwise ValueError or TypeError, caught).
IntDefined(j) ==
    CASE j.t = "int" -> TRUE
      [] j.t = "bool" -> TRUE
      [] j.t = "str" ->
            LET s == Strip(j.v)
            IN  IF Len(s) > 0 /\ s[1] \in {"+", "-"} THEN AllDigits(Tail(s))
                ELSE AllDigits(s)
      [] OTHER -> FALSE

\* int(x) where it succeeds.
IntOf(j) ==
    CASE j.t = "int" -> j.v
      [] j.t = "bool" -> IF j.v THEN 1 ELSE 0
      [] j.t = "str" ->
            LET s == Strip(j.v)
            IN  IF s[1] = "-" THEN 0 - DigitsToInt(Tail(s))
                ELSE IF s[1] = "+" THEN DigitsToInt(Tail(s))
                ELSE DigitsToInt(s)

\* Lines 160-170: the port read from the 'ssh' object.
SshPort(ssh_info) ==
    IF HasTruthy(ssh_info, "port") /\ IntDefined(ssh_info.v["port"])
    THEN IntOf(ssh_info.v["port"])
    ELSE DefaultPort

\* A variant that reads the field without the test that it is there.
HostOrNone_Unguarded(d, key, port) ==
    IF HasKey(d, key) THEN Found(d.v[key], port) ELSE Escapes("KeyError")

\* Lines 218-220.
HostOrNone(d, key, port) ==
    IF HasTruthy(d, key) THEN Found(d.v[key], port) ELSE NotFound

\* Lines 211-216: the first truthy field of the nested instance.
NestedFields == <<"ip", "ipAddress", "hostname", "address">>

NestedHost(nested) ==
    LET hit == {i \in DOMAIN NestedFields : HasTruthy(nested, NestedFields[i])}
    IN  IF hit = {} THEN NotFound
        ELSE Found(nested.v[NestedFields[Min(hit)]], DefaultPort)

\* Lines 187-216: the nested 'instance' object.
ResolveNested(nested) ==
    IF HasTruthy(nested, "sshCommand") /\ nested.v["sshCommand"].t # "str"
    THEN Escapes("TypeError")
    ELSE IF HasTruthy(nested, "sshCommand")
            /\ host_match(nested.v["sshCommand"].v)
    THEN ParseSshCommand(nested.v["sshCommand"].v)
    ELSE NestedHost(nested)

\* A variant of the chain in which an object that names no host is passed
\* over (`if` where the code has `elif`).
ResolveFields_FallThrough(instance) ==
    IF HasTruthy(instance, "ip") THEN Found(instance.v["ip"], DefaultPort)
    ELSE IF HasTruthy(instance, "ipAddress")
    THEN Found(instance.v["ipAddress"], DefaultPort)
    ELSE IF HasKey(instance, "ssh") /\ IsDict(instance.v["ssh"])
            /\ HasTruthy(instance.v["ssh"], "host")
    THEN HostOrNone(instance.v["ssh"], "host", SshPort(instance.v["ssh"]))
    ELSE IF HasKey(instance, "network") /\ IsDict(instance.v["network"])
            /\ HasTruthy(instance.v["network"], "ip")
    THEN HostOrNone(instance.v["network"], "ip", DefaultPort)
    ELSE IF HasKey(instance, "status") /\ IsDict(instance.v["status"])
            /\ HasTruthy(instance.v["status"], "ip")
    THEN HostOrNone(instance.v["status"], "ip", DefaultPort)
    ELSE IF HasKey(instance, "instance") /\ IsDict(instance.v["instance"])
    THEN ResolveNested(instance.v["instance"])
    ELSE NotFound

\* Lines 149-220: the chain of lower-priority fields of the matched record.
ResolveFields(instance) ==
    IF HasTruthy(instance, "ip") THEN Found(instance.v["ip"], DefaultPort)
    ELSE IF HasTruthy(instance, "ipAddress")
    THEN Found(instance.v["ipAddress"], DefaultPort)
    ELSE IF HasKey(instance, "ssh") /\ IsDict(instance.v["ssh"])
    THEN HostOrNone(instance.v["ssh"], "host", SshPort(instance.v["ssh"]))
    ELSE IF HasKey(instance, "network") /\ IsDict(instance.v["network"])
    THEN HostOrNone(instance.v["network"], "ip", DefaultPort)
    ELSE IF HasKey(instance, "status") /\ IsDict(instance.v["status"])
    THEN HostOrNone(instance.v["status"], "ip", DefaultPort)
    ELSE IF HasKey(instance, "instance") /\ IsDict(instance.v["instance"])
    THEN ResolveNested(instance.v["instance"])
    ELSE NotFound

\* A variant that looks at the lower-priority fields before the command.
ResolveRecord_FieldsFirst(instance) ==
    IF ResolveFields(instance).kind = "ok" THEN ResolveFields(instance)
    ELSE IF HasTruthy(instance, "sshCommand") /\ instance.v["sshCommand"].t # "str"
    THEN Escapes("TypeError")
    ELSE IF HasTruthy(instance, "sshCommand")
            /\ host_match(instance.v["sshCommand"].v)
    THEN ParseSshCommand(instance.v["sshCommand"].v)
    ELSE NotFound

\* Lines 124-220: host and port of the matched record.
ResolveRecord(instance) ==
    IF HasTruthy(instance, "sshCommand") /\ instance.v["sshCommand"].t # "str"
    THEN Escapes("TypeError")
    ELSE IF HasTruthy(instance, "sshCommand")
            /\ host_match(instance.v["sshCommand"].v)
    THEN ParseSshCommand(instance.v["sshCommand"].v)
    ELSE ResolveFields(instance)

\* Lines 93-101: json.loads of a text status, the structure itself otherwise.
LoadStatus(status_data) ==
    IF status_data.t = "text"
    THEN IF status_data.ok
         THEN [kind |-> "ok", v |-> status_data.v]
         ELSE [kind |-> "JSONDecodeError", v |-> JNull]
    ELSE [kind |-> "ok", v |-> status_data]

\* _get_instance_ip for the handler of instance id, given what
\* get_gpu_status() returned.
GetInstanceIp(status_data, id) ==
    LET loaded == LoadStatus(status_data)
    IN  IF loaded.kind # "ok" THEN NotFound
        ELSE LET ex == ExtractInstances(loaded.v)
             IN  IF ex.kind = "raise" THEN Escapes(ex.exc)
                 ELSE LET f == FindInstance(ex.v, id)
                      IN  CASE f.kind = "raise" -> Escapes(f.exc)
                            [] f.kind = "none" -> NotFound
                            [] f.kind = "ok" -> ResolveRecord(f.v)

(***************************************************************************)
(* The state.                                                              *)
(***************************************************************************)
VARIABLES
    is_connected,   \* ssh_manager.is_connected
    conn,           \* ssh_manager.get_connection_info()
    handlers,       \* the instance ids a FileTransfer object exists for
    stack,          \* the frames of the methods being executed, innermost last
    exc,            \* the exception being propagated to the frame on top
    env_key,        \* SSH_PRIVATE_KEY_PATH: "unset", "missing" (no such file), "ok"
    fs,             \* the local paths that exist
    call,           \* the public call in progress or last finished
    result,         \* "none", "running", "returned", "raised"
    error,          \* what the call raised, when result = "raised"
    count,          \* per public call: how often each collaborator was used
    slept,          \* seconds slept since the last attempt began
    xfer_ok,        \* the transfer step of the current attempt succeeded
    verified,       \* the verification of the current attempt was positive
    last_cmd        \* the last command given to execute_remote_command

vars == <<is_connected, conn, handlers, stack, exc, env_key, fs, call, result,
          error, count, slept, xfer_ok, verified, last_cmd>>

\* Groups of variables, for UNCHANGED.
session == <<is_connected, conn, handlers>>
inputs == <<env_key, call>>
control == <<exc, result, error>>
attempt_obs == <<slept, xfer_ok, verified>>
observed == <<count, slept, xfer_ok, verified, last_cmd>>

\* The instance ids handlers are made for: one-character strings; the
\* characters of id are <<id>>.  (The status data also lists an instance "B".)
Instances == {"A"}

\* Local and remote paths.
LocalFile == "local_file"
LocalDir == "local_dir"
TempArchive == "temp_archive"
RemotePath == "remote_path"
RemoteDir == "remote_dir"
RemoteArchive == "remote_dir/temp_archive.tar.gz"

\* Exceptions: the type, the source line of the raise, and the thing the
\* message names.
NoExc == [type |-> "none", line |-> 0, arg |-> ""]
Exc(type, line, arg) == [type |-> type, line |-> line, arg |-> arg]

Disconnected == [status |-> "disconnected", host |-> JNull, port |-> 0, username |-> ""]

Events == {"key_check", "get_status", "handshake", "remote_cmd", "mkdir", "fetch",
           "verify", "pre_verify", "extract", "relay_small", "relay_lookup",
           "relay_large", "scp", "sleep", "input", "makedirs", "mktemp", "tar",
           "unlink", "list"}

NoCounts == [e \in Events |-> 0]

Bump(c, e) == [c EXCEPT ![e] = @ + 1]

NoCmd == [kind |-> "none", arg |-> "", dest |-> ""]

\* A frame of method fn.
Frame(fn, self, local, remote, max_retries) ==
    [fn |-> fn, pc |-> "start", self |-> self, local |-> local, remote |-> remote,
     max_retries |-> max_retries, attempt |-> 0, size |-> 0, host |-> JNull,
     port |-> 0, user |-> "", url |-> "", out |-> <<>>, pending |-> NoExc]

NoCall == [fn |-> "none", self |-> "", local |-> "", remote |-> "", max_retries |-> 0]

Top == stack[Len(stack)]
Pop == SubSeq(stack, 1, Len(stack) - 1)
SetTop(f) == [stack EXCEPT ![Len(stack)] = f]
Goto(pc) == SetTop([Top EXCEPT !.pc = pc])

\* The frame on top is in method fn at pc, and no exception is in flight.
At(fn, pc) ==
    /\ stack # <<>>
    /\ exc = NoExc
    /\ Top.fn = fn
    /\ Top.pc = pc

\* The frame on top is in method fn at pc, and a callee has raised.
Caught(fn, pc) ==
    /\ stack # <<>>
    /\ exc # NoExc
    /\ Top.fn = fn
    /\ Top.pc = pc

\* `return` of the method on top.
Return ==
    /\ stack' = Pop
    /\ exc' = NoExc
    /\ result' = IF Len(stack) = 1 THEN "returned" ELSE result
    /\ error' = error

\* `raise e` in the method on top, outside any try block of that method.
Raise(e) ==
    /\ stack' = Pop
    /\ exc' = IF Len(stack) = 1 THEN NoExc ELSE e
    /\ result' = IF Len(stack) = 1 THEN "raised" ELSE result
    /\ error' = IF Len(stack) = 1 THEN e ELSE error

\* A call of callee from the method on top, which resumes at pc.
Invoke(callee, pc) ==
    /\ stack' = Append(SetTop([Top EXCEPT !.pc = pc]), callee)
    /\ UNCHANGED control

\* The method on top goes on at pc.
Jump(pc) ==
    /\ stack' = Goto(pc)
    /\ UNCHANGED control

\* `token in output`
Contains(token, output) == \E i \in DOMAIN output : output[i] = token

\* A public call begins: the caller's arguments, and the environment and file
\* system as they are at that time.
Begin(fn, self, local, remote, max_retries, key, files) ==
    /\ stack = <<>>
    /\ result = "none"
    /\ stack' = <<Frame(fn, self, local, remote, max_retries)>>
    /\ env_key' = key
    /\ fs' = files
    /\ call' = [fn |-> fn, self |-> self, local |-> local, remote |-> remote,
                max_retries |-> max_retries]
    /\ result' = "running"
    /\ error' = NoExc
    /\ count' = NoCounts
    /\ slept' = 0
    /\ xfer_ok' = FALSE
    /\ verified' = FALSE
    /\ last_cmd' = NoCmd
    /\ UNCHANGED <<session, exc>>

\* A public call has returned or raised, and its caller goes on: what was
\* observed of the call is dropped; the session, which is process-wide, and
\* the handler objects stay.
CallerGoesOn ==
    /\ stack = <<>>
    /\ result \in {"returned", "raised"}
    /\ env_key' = "unset"
    /\ fs' = {}
    /\ call' = NoCall
    /\ result' = "none"
    /\ error' = NoExc
    /\ count' = NoCounts
    /\ slept' = 0
    /\ xfer_ok' = FALSE
    /\ verified' = FALSE
    /\ last_cmd' = NoCmd
    /\ UNCHANGED <<session, stack, exc>>

(***************************************************************************)
(* Collaborators.                                                          *)
(***************************************************************************)
\* What get_gpu_status() may return.
HostH1 == <<"h", "1">>
HostH2 == <<"h", "2">>
SshCommandA == <<"s", "s", "h", " ", "u", "@", "h", "1", " ", "-", "p", " ", "2", "2", "0", "0">>

StatusInputs ==
    << JText(FALSE, JNull),
       JDict([instances |-> JList(<<
           JDict([id |-> JStr(<<"A">>), sshCommand |-> JStr(SshCommandA)]) >>)]),
       JText(TRUE, JDict([data |-> JList(<<
           JDict([id |-> JStr(<<"B">>), ip |-> JStr(HostH2)]),
           JDict([id |-> JStr(<<"A">>), sshCommand |-> JStr(SshCommandA)]) >>)])),
       JInt(7) >>

\* What connect_ssh() may return.
ConnectResults == {<<"Successfully connected">>, <<"SSH Key Error">>}

\* "Successfully connected" in ssh_result
ConnectSucceeded(ssh_result) == Contains("Successfully connected", ssh_result)

\* connect_ssh(host, username, ..., port): the session the SSH manager holds
\* afterwards, given the result it reports.
connect_ssh(host, username, port, ssh_result) ==
    IF ConnectSucceeded(ssh_result)
    THEN [status |-> "connected", host |-> host, port |-> port, username |-> username]
    ELSE Disconnected

\* What execute_remote_command() may return for a command that ends in
\* `&& echo '<token>'`.
RemoteOutputs(token) == {<<token>>, <<>>, <<"Error:", "command", "failed">>}

\* What execute_remote_command() may return for `find <dir> -type f | sort`,
\* as the lines of the output: an error of the command, the complaint of find
\* about a missing directory, nothing (a directory without files), one path,
\* two paths.
ErrorLine == "Error: command failed"
NoSuchLine == "find: remote_dir: No such file or directory"
RemoteFileA == "remote_dir/a"
RemoteFileB == "remote_dir/sub/b"

ListingOutputs ==
    {<<ErrorLine>>, <<NoSuchLine>>, <<>>, <<RemoteFileA>>, <<RemoteFileA, RemoteFileB>>}

\* result.startswith("Error")
StartsWithError(lines) == lines # <<>> /\ lines[1] = ErrorLine

\* "No such file or directory" in result
SaysNoSuchFile(lines) == \E i \in DOMAIN lines : lines[i] = NoSuchLine

\* result.strip().split('\n'): the lines, one empty line for an empty output.
SplitLines(lines) == IF lines = <<>> THEN <<"">> ELSE lines

\* os.path.join(local_dir, os.path.relpath(remote_path, remote_dir))
LocalPathOf(remote_path) ==
    CASE remote_path = RemoteFileA -> "local_dir/a"
      [] remote_path = RemoteFileB -> "local_dir/sub/b"

\* execute_remote_command(command): what the call leaves behind.
Issue(kind, arg, dest) ==
    /\ count' = Bump(Bump(count, "remote_cmd"), kind)
    /\ last_cmd' = [kind |-> kind, arg |-> arg, dest |-> dest]

\* A collaborator other than the remote shell is used.
Use(event) ==
    /\ count' = Bump(count, event)
    /\ last_cmd' = last_cmd

\* The two candidate usernames, lines 64 and 75.
FirstUsername == "ubuntu"
SecondUsername == "root"

\* The environment a public call may find.
KeyStates == {"unset", "missing", "ok"}

\* os.path.getsize(local_path) / (1024 * 1024), in whole megabytes.
FileSizes == {SmallLimit - 1, SmallLimit, LargeLimit - 1, LargeLimit}

(***************************************************************************)
(* The retry loops, lines 266-307, 335-380, 384-447, 521-559.              *)
(***************************************************************************)
\* A variant of the loop whose body runs once before max_retries is looked
\* at.
InRange_AtLeastOnce(attempt, max_retries) == attempt = 0 \/ attempt < max_retries

\* `for attempt in range(max_retries)`: there is an iteration for attempt.
InRange(attempt, max_retries) == attempt < max_retries

\* `if attempt < max_retries - 1`
ShouldSleep(attempt, max_retries) == attempt < max_retries - 1

\* A variant of the delay that does not grow with the attempt.
RetryDelay_Flat(attempt) == BackoffUnit

\* `retry_delay = 5 * (attempt + 1)`
RetryDelay(attempt) == BackoffUnit * (attempt + 1)

\* The head of a retry loop of method fn.
LoopHead(fn, pc, body, exit) ==
    /\ At(fn, pc)
    /\ IF InRange(Top.attempt, Top.max_retries) THEN Jump(body) ELSE Jump(exit)
    /\ UNCHANGED <<session, inputs, fs, observed>>

\* An attempt begins.
AttemptBegins ==
    /\ slept' = 0
    /\ xfer_ok' = FALSE
    /\ verified' = FALSE

\* "Wait before retrying", the end of an iteration.
Backoff(fn, pc, loop) ==
    /\ At(fn, pc)
    /\ IF ShouldSleep(Top.attempt, Top.max_retries)
       THEN /\ Use("sleep")
            /\ slept' = slept + RetryDelay(Top.attempt)
       ELSE UNCHANGED <<count, last_cmd, slept>>
    /\ stack' = SetTop([Top EXCEPT !.attempt = @ + 1, !.pc = loop])
    /\ UNCHANGED <<session, inputs, fs, control, xfer_ok, verified>>

\* The remote fetch of a relay attempt:
\* curl -s -L '<url>' -o '<remote_path>' && echo 'success'.
RemoteFetch(fn, pc, ok, failed) ==
    /\ At(fn, pc)
    /\ Issue("fetch", Top.url, Top.remote)
    /\ \E output \in RemoteOutputs("success") :
         /\ xfer_ok' = Contains("success", output)
         /\ Jump(IF Contains("success", output) THEN ok ELSE failed)
    /\ UNCHANGED <<session, inputs, fs, slept, verified>>

(***************************************************************************)
(* FileTransfer.__init__, lines 25-32.                                     *)
(***************************************************************************)
\* A caller constructs FileTransfer(instance_id).
Construct(id, key) ==
    Begin("__init__", id, "", "", 0, key, {})

\* A variant of the constructor without line 32.
Init_Ensure_Skipped ==
    /\ At("__init__", "start")
    /\ Jump("done")
    /\ UNCHANGED <<session, inputs, fs, observed>>

\* Line 32: self._ensure_ssh_access().
Init_Ensure ==
    /\ At("__init__", "start")
    /\ Invoke(Frame("_ensure_ssh_access", Top.self, "", "", 0), "done")
    /\ UNCHANGED <<session, inputs, fs, observed>>

\* The constructor returns: the object exists.
Init_Done ==
    /\ At("__init__", "done")
    /\ handlers' = handlers \cup {Top.self}
    /\ Return
    /\ UNCHANGED <<is_connected, conn, inputs, fs, observed>>

(***************************************************************************)
(* FileTransfer._ensure_ssh_access, lines 34-84.                           *)
(***************************************************************************)
\* A variant of lines 36-39 without the early return.
Ensure_CheckConnected_Always ==
    /\ At("_ensure_ssh_access", "start")
    /\ Jump("key_path")
    /\ UNCHANGED <<session, inputs, fs, observed>>

\* Lines 36-39.
Ensure_CheckConnected ==
    /\ At("_ensure_ssh_access", "start")
    /\ IF is_connected THEN Return ELSE Jump("key_path")
    /\ UNCHANGED <<session, inputs, fs, observed>>

\* A variant of lines 41-51 without the test that the key file exists.
Ensure_KeyPath_NoFileCheck ==
    /\ At("_ensure_ssh_access", "key_path")
    /\ Use("key_check")
    /\ IF env_key = "unset"
       THEN Raise(Exc("ValueError", 44, "SSH_PRIVATE_KEY_PATH"))
       ELSE Jump("get_ip")
    /\ UNCHANGED <<session, inputs, fs, attempt_obs>>

\* Lines 41-51.
Ensure_KeyPath ==
    /\ At("_ensure_ssh_access", "key_path")
    /\ Use("key_check")
    /\ CASE env_key = "unset" -> Raise(Exc("ValueError", 44, "SSH_PRIVATE_KEY_PATH"))
         [] env_key = "missing" -> Raise(Exc("FileNotFoundError", 48, "SSH_PRIVATE_KEY_PATH"))
         [] OTHER -> Jump("get_ip")
    /\ UNCHANGED <<session, inputs, fs, attempt_obs>>

\* Lines 53-58.
Ensure_GetIp ==
    /\ At("_ensure_ssh_access", "get_ip")
    /\ Use("get_status")
    /\ \E i \in DOMAIN StatusInputs :
         LET ip_info == GetInstanceIp(StatusInputs[i], Top.self)
         IN  CASE ip_info.kind = "raise" -> Raise(Exc(ip_info.exc, 54, "status"))
               [] ip_info.kind = "none" -> Raise(Exc("RuntimeError", 56, "instance_id"))
               [] ip_info.kind = "ok" ->
                    /\ stack' = SetTop([Top EXCEPT !.pc = "connect_first",
                                                  !.host = ip_info.host,
                                                  !.port = ip_info.port])
                    /\ UNCHANGED control
    /\ UNCHANGED <<session, inputs, fs, attempt_obs>>

\* One handshake as username: the session and ssh_result afterwards.
Handshake(username, next_ok, next_failed) ==
    /\ Use("handshake")
    /\ \E ssh_result \in ConnectResults :
         /\ conn' = connect_ssh(Top.host, username, Top.port, ssh_result)
         /\ is_connected' = ConnectSucceeded(ssh_result)
         /\ stack' = SetTop([Top EXCEPT
                                !.out = ssh_result,
                                !.pc = IF ConnectSucceeded(ssh_result)
                                       THEN next_ok ELSE next_failed])
    /\ UNCHANGED <<handlers, inputs, fs, control, attempt_obs>>

\* A variant of lines 60-70 that gives up after the first candidate.
Ensure_ConnectFirst_Only ==
    /\ At("_ensure_ssh_access", "connect_first")
    /\ Handshake(FirstUsername, "check", "check")

\* Lines 60-70: the first candidate, and the test that decides on the second.
Ensure_ConnectFirst ==
    /\ At("_ensure_ssh_access", "connect_first")
    /\ Handshake(FirstUsername, "check", "connect_second")

\* Lines 71-79: the second candidate.
Ensure_ConnectSecond ==
    /\ At("_ensure_ssh_access", "connect_second")
    /\ Handshake(SecondUsername, "check", "check")

\* Lines 81-84.
Ensure_Check ==
    /\ At("_ensure_ssh_access", "check")
    /\ IF ConnectSucceeded(Top.out)
       THEN Return
       ELSE Raise(Exc("RuntimeError", 82, "ssh_result"))
    /\ UNCHANGED <<session, inputs, fs, observed>>

(***************************************************************************)
(* FileTransfer.upload_via_curl, lines 311-481.                            *)
(***************************************************************************)
\* A variant of the tiers whose limits belong to the tier below.
Tier_Inclusive(size_mb) ==
    IF size_mb <= SmallLimit THEN "small"
    ELSE IF size_mb <= LargeLimit THEN "large"
    ELSE "manual"

\* The tier of a file of size_mb megabytes, lines 333, 383, 448.
Tier(size_mb) ==
    IF size_mb < SmallLimit THEN "small"
    ELSE IF size_mb < LargeLimit THEN "large"
    ELSE "manual"

\* A caller calls upload_via_curl on an existing handler.
Call_upload_via_curl(self, max_retries, files) ==
    /\ self \in handlers
    /\ Begin("upload_via_curl", self, LocalFile, RemotePath, max_retries, env_key, files)

\* Lines 322-323.
UVC_CheckLocal ==
    /\ At("upload_via_curl", "start")
    /\ IF Top.local \in fs
       THEN Jump("size")
       ELSE Raise(Exc("FileNotFoundError", 323, Top.local))
    /\ UNCHANGED <<session, inputs, fs, observed>>

\* Lines 325-333, 383, 448: the size is read once and selects the tier.
UVC_Size ==
    /\ At("upload_via_curl", "size")
    /\ \E file_size_mb \in FileSizes :
         stack' = SetTop([Top EXCEPT
                            !.size = file_size_mb,
                            !.pc = CASE Tier(file_size_mb) = "small" -> "small_loop"
                                     [] Tier(file_size_mb) = "large" -> "large_loop"
                                     [] Tier(file_size_mb) = "manual" -> "manual"])
    /\ UNCHANGED <<session, inputs, fs, control, observed>>

\* Line 335.
UVC_SmallLoop == LoopHead("upload_via_curl", "small_loop", "small_upload", "exhausted")

\* What the small-file host prints for an upload: the download URL.
SmallUrls == {"https://transfer.sh/x", "https://transfer.sh/y"}

\* A variant of the upload without check=True: a failed curl goes on to the
\* fetch, with whatever download_url holds.
UVC_SmallUpload_Unchecked ==
    /\ At("upload_via_curl", "small_upload")
    /\ Use("relay_small")
    /\ AttemptBegins
    /\ \E outcome \in {"CalledProcessError"} \cup SmallUrls :
         IF outcome = "CalledProcessError"
         THEN stack' = Goto("small_fetch")
         ELSE stack' = SetTop([Top EXCEPT !.url = outcome, !.pc = "small_fetch"])
    /\ UNCHANGED <<session, inputs, fs, control>>

\* Lines 336-353, 373-374: curl --upload-file to the small-file host; a
\* non-zero exit raises (check=True) and is caught at line 373.
UVC_SmallUpload ==
    /\ At("upload_via_curl", "small_upload")
    /\ Use("relay_small")
    /\ AttemptBegins
    /\ \E outcome \in {"CalledProcessError"} \cup SmallUrls :
         IF outcome = "CalledProcessError"
         THEN stack' = Goto("small_backoff")
         ELSE stack' = SetTop([Top EXCEPT !.url = outcome, !.pc = "small_fetch"])
    /\ UNCHANGED <<session, inputs, fs, control>>

\* Lines 355-360, 370-371.
UVC_SmallFetch == RemoteFetch("upload_via_curl", "small_fetch", "small_verify", "small_backoff")

\* A variant of the verification that raises at once when the file is not
\* reported, instead of leaving the attempt to the retry loop.
RemoteVerify_Fatal(fn, pc, failed) ==
    /\ At(fn, pc)
    /\ Issue("verify", Top.remote, Top.remote)
    /\ \E verify_result \in RemoteOutputs("exists") :
         /\ verified' = Contains("exists", verify_result)
         /\ IF Contains("exists", verify_result)
            THEN Return
            ELSE Raise(Exc("RuntimeError", 369, Top.remote))
    /\ UNCHANGED <<session, inputs, fs, slept, xfer_ok>>

\* The verification of a relay attempt, test -s '<remote_path>' && echo
\* 'exists': the call returns when it reports 'exists'.
RemoteVerify(fn, pc, failed) ==
    /\ At(fn, pc)
    /\ Issue("verify", Top.remote, Top.remote)
    /\ \E verify_result \in RemoteOutputs("exists") :
         /\ verified' = Contains("exists", verify_result)
         /\ IF Contains("exists", verify_result) THEN Return ELSE Jump(failed)
    /\ UNCHANGED <<session, inputs, fs, slept, xfer_ok>>

\* Lines 361-369.
UVC_SmallVerify == RemoteVerify("upload_via_curl", "small_verify", "small_backoff")

\* Lines 376-380.
UVC_SmallBackoff == Backoff("upload_via_curl", "small_backoff", "small_loop")

\* Line 384.
UVC_LargeLoop == LoopHead("upload_via_curl", "large_loop", "large_server", "exhausted")

\* Lines 385-399, 440-441: the server lookup of the large-file host; a failed
\* curl, a malformed answer and a status other than "ok" all raise and are
\* caught at line 440.
UVC_LargeServer ==
    /\ At("upload_via_curl", "large_server")
    /\ Use("relay_lookup")
    /\ AttemptBegins
    /\ \E status \in {"ok", "error"} :
         Jump(IF status = "ok" THEN "large_upload" ELSE "large_backoff")
    /\ UNCHANGED <<session, inputs, fs>>

\* Lines 401-418, 437-441: the upload to that server.
UVC_LargeUpload ==
    /\ At("upload_via_curl", "large_upload")
    /\ Use("relay_large")
    /\ \E outcome \in {"exception", "status not ok",
                       "https://store1.gofile.io/download/x"} :
         IF outcome \in {"exception", "status not ok"}
         THEN stack' = Goto("large_backoff")
         ELSE stack' = SetTop([Top EXCEPT !.url = outcome, !.pc = "large_fetch"])
    /\ UNCHANGED <<session, inputs, fs, control, attempt_obs>>

\* Lines 420-425, 435-436.
UVC_LargeFetch == RemoteFetch("upload_via_curl", "large_fetch", "large_verify", "large_backoff")

\* Lines 426-434.
UVC_LargeVerify == RemoteVerify("upload_via_curl", "large_verify", "large_backoff")

\* Lines 443-447.
UVC_LargeBackoff == Backoff("upload_via_curl", "large_backoff", "large_loop")

\* Lines 449-457: no relay host for this size; the caller may type a URL
\* ("" when Enter is pressed; EOFError when there is no input to read).
UVC_Manual ==
    /\ At("upload_via_curl", "manual")
    /\ Use("input")
    /\ AttemptBegins
    /\ \E typed \in {"", "https://example.org/x", "EOFError"} :
         IF typed = "EOFError"
         THEN Raise(Exc("EOFError", 457, "input"))
         ELSE /\ stack' = SetTop([Top EXCEPT !.url = typed, !.pc = "manual_url"])
              /\ UNCHANGED control
    /\ UNCHANGED <<session, inputs, fs>>

\* A variant of line 458 that fetches whatever was typed.
UVC_ManualUrl_Unchecked ==
    /\ At("upload_via_curl", "manual_url")
    /\ Jump("manual_fetch")
    /\ UNCHANGED <<session, inputs, fs, observed>>

\* Lines 458, 477-478: `if url:`.
UVC_ManualUrl ==
    /\ At("upload_via_curl", "manual_url")
    /\ IF Top.url # ""
       THEN Jump("manual_fetch")
       ELSE Raise(Exc("RuntimeError", 478, "large file"))
    /\ UNCHANGED <<session, inputs, fs, observed>>

\* Lines 459-464, 472-478.
UVC_ManualFetch ==
    /\ At("upload_via_curl", "manual_fetch")
    /\ Issue("fetch", Top.url, Top.remote)
    /\ \E output \in RemoteOutputs("success") :
         /\ xfer_ok' = Contains("success", output)
         /\ IF Contains("success", output)
            THEN Jump("manual_verify")
            ELSE Raise(Exc("RuntimeError", 478, "large file"))
    /\ UNCHANGED <<session, inputs, fs, slept, verified>>

\* Lines 465-471, 477-478.
UVC_ManualVerify ==
    /\ At("upload_via_curl", "manual_verify")
    /\ Issue("verify", Top.remote, Top.remote)
    /\ \E verify_result \in RemoteOutputs("exists") :
         /\ verified' = Contains("exists", verify_result)
         /\ IF Contains("exists", verify_result)
            THEN Return
            ELSE Raise(Exc("RuntimeError", 478, "large file"))
    /\ UNCHANGED <<session, inputs, fs, slept, xfer_ok>>

\* Lines 480-481.
UVC_Exhausted ==
    /\ At("upload_via_curl", "exhausted")
    /\ Raise(Exc("RuntimeError", 481, Top.local))
    /\ UNCHANGED <<session, inputs, fs, observed>>

(***************************************************************************)
(* FileTransfer._get_ssh_info, lines 677-707.                              *)
(***************************************************************************)
\* A variant that takes the endpoint of the handler's own instance from the
\* status data whatever the session is.
GetSshInfo_OfInstance(status_data, self) ==
    LET ip_info == GetInstanceIp(status_data, self)
    IN  CASE ip_info.kind = "raise" ->
               [ok |-> FALSE, exc |-> Exc(ip_info.exc, 694, "status"),
                host |-> JNull, username |-> "", port |-> 0]
          [] ip_info.kind = "none" ->
               [ok |-> FALSE, exc |-> Exc("RuntimeError", 696, "instance_id"),
                host |-> JNull, username |-> "", port |-> 0]
          [] ip_info.kind = "ok" ->
               [ok |-> TRUE, exc |-> NoExc,
                host |-> ip_info.host, username |-> FirstUsername,
                port |-> ip_info.port]

\* The connection info the secure copy is built from: the session's when
\* there is one, the endpoint of the status data otherwise (ok = FALSE when
\* that cannot be resolved).
GetSshInfo(status_data, self) ==
    IF is_connected /\ conn.status = "connected"
    THEN [ok |-> TRUE, exc |-> NoExc,
          host |-> conn.host, username |-> conn.username, port |-> conn.port]
    ELSE LET ip_info == GetInstanceIp(status_data, self)
         IN  CASE ip_info.kind = "raise" ->
                    [ok |-> FALSE, exc |-> Exc(ip_info.exc, 694, "status"),
                     host |-> JNull, username |-> "", port |-> 0]
               [] ip_info.kind = "none" ->
                    [ok |-> FALSE, exc |-> Exc("RuntimeError", 696, "instance_id"),
                     host |-> JNull, username |-> "", port |-> 0]
               [] ip_info.kind = "ok" ->
                    [ok |-> TRUE, exc |-> NoExc,
                     host |-> ip_info.host, username |-> FirstUsername,
                     port |-> ip_info.port]

\* ssh_info = self._get_ssh_info() and the three reads that follow it
\* (lines 251-256, 499-504).
ReadSshInfo(fn, pc, next) ==
    /\ At(fn, pc)
    /\ \E i \in DOMAIN StatusInputs :
         LET ssh_info == GetSshInfo(StatusInputs[i], Top.self)
         IN  IF ssh_info.ok
             THEN /\ stack' = SetTop([Top EXCEPT !.pc = next,
                                                !.host = ssh_info.host,
                                                !.port = ssh_info.port,
                                                !.user = ssh_info.username])
                  /\ UNCHANGED control
             ELSE Raise(ssh_info.exc)
    /\ UNCHANGED <<session, inputs, fs, observed>>

\* ssh_key_path = os.environ.get('SSH_PRIVATE_KEY_PATH') and its test
\* (lines 258-263, 506-511).
ReadKeyPath(fn, pc, next, line) ==
    /\ At(fn, pc)
    /\ IF env_key = "unset"
       THEN Raise(Exc("ValueError", line, "SSH_PRIVATE_KEY_PATH"))
       ELSE Jump(next)
    /\ UNCHANGED <<session, inputs, fs, observed>>

\* subprocess.run(scp ...): the return code, or an exception of run itself.
ScpOutcomes == {"0", "1", "exception"}

\* The secure copy of one attempt (lines 267-286 and 298-301, 522-541 and
\* 550-553); it may leave the local paths of `written` behind.
SecureCopy(fn, pc, ok, failed, written) ==
    /\ At(fn, pc)
    /\ Use("scp")
    /\ slept' = 0
    /\ verified' = FALSE
    /\ \E returncode \in ScpOutcomes :
         /\ xfer_ok' = (returncode = "0")
         /\ Jump(IF returncode = "0" THEN ok ELSE failed)
    /\ fs' \in {fs} \cup {fs \cup w : w \in SUBSET written}
    /\ UNCHANGED <<session, inputs>>

(***************************************************************************)
(* FileTransfer.upload_file, lines 222-309.                                *)
(***************************************************************************)
\* A caller calls upload_file on an existing handler.
Call_upload_file(self, max_retries, key, files) ==
    /\ self \in handlers
    /\ Begin("upload_file", self, LocalFile, RemotePath, max_retries, key, files)

\* A variant without the test of lines 230-231.
UF_CheckLocal_Skipped ==
    /\ At("upload_file", "start")
    /\ Jump("ensure")
    /\ UNCHANGED <<session, inputs, fs, observed>>

\* Lines 230-231.
UF_CheckLocal ==
    /\ At("upload_file", "start")
    /\ IF Top.local \in fs
       THEN Jump("ensure")
       ELSE Raise(Exc("FileNotFoundError", 231, Top.local))
    /\ UNCHANGED <<session, inputs, fs, observed>>

\* Lines 233-234.
UF_Ensure ==
    /\ At("upload_file", "ensure")
    /\ Invoke(Frame("_ensure_ssh_access", Top.self, "", "", 0), "mkdir")
    /\ UNCHANGED <<session, inputs, fs, observed>>

\* Lines 236-238: mkdir -p of the remote parent directory; the output is
\* not looked at.
UF_Mkdir ==
    /\ At("upload_file", "mkdir")
    /\ Issue("mkdir", Top.remote, Top.remote)
    /\ Jump("relay")
    /\ UNCHANGED <<session, inputs, fs, attempt_obs>>

\* Lines 240-243: the relay uploader, with the caller's max_retries.
UF_Relay ==
    /\ At("upload_file", "relay")
    /\ Invoke(Frame("upload_via_curl", Top.self, Top.local, Top.remote,
                    Top.max_retries), "relay_done")
    /\ UNCHANGED <<session, inputs, fs, observed>>

\* A variant of line 244 that goes on to the secure copy although the relay
\* uploader returned.
UF_RelayReturned_Copies ==
    /\ At("upload_file", "relay_done")
    /\ Jump("ssh_info")
    /\ UNCHANGED <<session, inputs, fs, observed>>

\* Line 244: the relay uploader returned.
UF_RelayReturned ==
    /\ At("upload_file", "relay_done")
    /\ Return
    /\ UNCHANGED <<session, inputs, fs, observed>>

\* A variant of lines 245-247 in which the fallback gets one attempt less.
UF_RelayFailed_Reduced ==
    /\ Caught("upload_file", "relay_done")
    /\ exc' = NoExc
    /\ stack' = SetTop([Top EXCEPT !.pc = "ssh_info", !.max_retries = @ - 1])
    /\ UNCHANGED <<session, inputs, fs, result, error, observed>>

\* Lines 245-247: the relay uploader raised; `except Exception` takes it and
\* the method goes on with the secure copy.
UF_RelayFailed ==
    /\ Caught("upload_file", "relay_done")
    /\ exc' = NoExc
    /\ stack' = Goto("ssh_info")
    /\ UNCHANGED <<session, inputs, fs, result, error, observed>>

\* Lines 249-256.
UF_SshInfo == ReadSshInfo("upload_file", "ssh_info", "key")

\* Lines 258-263.
UF_Key == ReadKeyPath("upload_file", "key", "scp_loop", 261)

\* Line 266.
UF_ScpLoop == LoopHead("upload_file", "scp_loop", "scp", "exhausted")

\* Lines 267-286, 298-301.
UF_Scp == SecureCopy("upload_file", "scp", "verify", "backoff", {})

\* A variant of lines 288-297 that returns after the check whatever it
\* reports.
UF_Verify_Unchecked ==
    /\ At("upload_file", "verify")
    /\ Issue("verify", Top.remote, Top.remote)
    /\ \E verify_result \in RemoteOutputs("exists") :
         /\ verified' = Contains("exists", verify_result)
         /\ Return
    /\ UNCHANGED <<session, inputs, fs, slept, xfer_ok>>

\* Lines 288-297: test -f <remote_path> && echo 'exists'.
UF_Verify ==
    /\ At("upload_file", "verify")
    /\ Issue("verify", Top.remote, Top.remote)
    /\ \E verify_result \in RemoteOutputs("exists") :
         /\ verified' = Contains("exists", verify_result)
         /\ IF Contains("exists", verify_result) THEN Return ELSE Jump("backoff")
    /\ UNCHANGED <<session, inputs, fs, slept, xfer_ok>>

\* Lines 303-307.
UF_Backoff == Backoff("upload_file", "backoff", "scp_loop")

\* Line 309.
UF_Exhausted ==
    /\ At("upload_file", "exhausted")
    /\ Raise(Exc("RuntimeError", 309, Top.local))
    /\ UNCHANGED <<session, inputs, fs, observed>>

(***************************************************************************)
(* FileTransfer.download_file, lines 483-561.                              *)
(***************************************************************************)
\* A caller calls download_file on an existing handler.
Call_download_file(self, max_retries, key) ==
    /\ self \in handlers
    /\ Begin("download_file", self, LocalFile, RemotePath, max_retries, key, {})

\* Lines 491-492.
DF_Ensure ==
    /\ At("download_file", "start")
    /\ Invoke(Frame("_ensure_ssh_access", Top.self, "", "", 0), "makedirs")
    /\ UNCHANGED <<session, inputs, fs, observed>>

\* Lines 494-496: os.makedirs(local_dir, exist_ok=True), which raises when
\* the directory cannot be made (or local_path has no directory part).
DF_Makedirs ==
    /\ At("download_file", "makedirs")
    /\ Use("makedirs")
    /\ \E made \in BOOLEAN :
         IF made THEN Jump("ssh_info") ELSE Raise(Exc("OSError", 496, Top.local))
    /\ UNCHANGED <<session, inputs, fs, attempt_obs>>

\* Lines 498-504.
DF_SshInfo == ReadSshInfo("download_file", "ssh_info", "key")

\* Lines 506-511.
DF_Key == ReadKeyPath("download_file", "key", "pre_verify", 509)

\* A variant of lines 513-518 that goes on to the copy whatever the check
\* reports.
DF_PreVerify_Unchecked ==
    /\ At("download_file", "pre_verify")
    /\ Issue("pre_verify", Top.remote, Top.remote)
    /\ \E verify_result \in RemoteOutputs("exists") :
         /\ stack' = SetTop([Top EXCEPT !.out = verify_result, !.pc = "scp_loop"])
         /\ UNCHANGED control
    /\ UNCHANGED <<session, inputs, fs, attempt_obs>>

\* Lines 513-518: the up-front check that the remote file exists.
DF_PreVerify ==
    /\ At("download_file", "pre_verify")
    /\ Issue("pre_verify", Top.remote, Top.remote)
    /\ \E verify_result \in RemoteOutputs("exists") :
         IF Contains("exists", verify_result)
         THEN /\ stack' = SetTop([Top EXCEPT !.out = verify_result, !.pc = "scp_loop"])
              /\ UNCHANGED control
         ELSE Raise(Exc("FileNotFoundError", 518, Top.remote))
    /\ UNCHANGED <<session, inputs, fs, attempt_obs>>

\* Line 521.
DF_ScpLoop == LoopHead("download_file", "scp_loop", "scp", "exhausted")

\* Lines 522-541, 550-553.
DF_Scp == SecureCopy("download_file", "scp", "verify", "backoff", {Top.local})

\* A variant of lines 543-549 that raises at once when the file is not
\* there.
DF_Verify_Fatal ==
    /\ At("download_file", "verify")
    /\ verified' = (Top.local \in fs)
    /\ IF Top.local \in fs THEN Return ELSE Raise(Exc("RuntimeError", 561, Top.remote))
    /\ UNCHANGED <<session, inputs, fs, count, last_cmd, slept, xfer_ok>>

\* Lines 543-549: os.path.exists(local_path) after a copy that exited 0.
DF_Verify ==
    /\ At("download_file", "verify")
    /\ verified' = (Top.local \in fs)
    /\ IF Top.local \in fs THEN Return ELSE Jump("backoff")
    /\ UNCHANGED <<session, inputs, fs, count, last_cmd, slept, xfer_ok>>

\* Lines 555-559.
DF_Backoff == Backoff("download_file", "backoff", "scp_loop")

\* Line 561.
DF_Exhausted ==
    /\ At("download_file", "exhausted")
    /\ Raise(Exc("RuntimeError", 561, Top.remote))
    /\ UNCHANGED <<session, inputs, fs, observed>>

(***************************************************************************)
(* FileTransfer.download_directory, lines 620-654.                         *)
(***************************************************************************)
\* The frame of download_directory: result is the listing, i the position of
\* the for loop in it.
DirFrame(self, local, remote, max_retries) ==
    Frame("download_directory", self, local, remote, max_retries)
        @@ [lines |-> <<>>, i |-> 1]

\* A caller calls download_directory on an existing handler.
Call_download_directory(self, max_retries, key) ==
    /\ self \in handlers
    /\ stack = <<>>
    /\ result = "none"
    /\ stack' = <<DirFrame(self, LocalDir, RemoteDir, max_retries)>>
    /\ env_key' = key
    /\ fs' = {}
    /\ call' = [fn |-> "download_directory", self |-> self, local |-> LocalDir,
                remote |-> RemoteDir, max_retries |-> max_retries]
    /\ result' = "running"
    /\ error' = NoExc
    /\ count' = NoCounts
    /\ slept' = 0
    /\ xfer_ok' = FALSE
    /\ verified' = FALSE
    /\ last_cmd' = NoCmd
    /\ UNCHANGED <<session, exc>>

\* Lines 628-629.
DD_Ensure ==
    /\ At("download_directory", "start")
    /\ Invoke(Frame("_ensure_ssh_access", Top.self, "", "", 0), "makedirs")
    /\ UNCHANGED <<session, inputs, fs, observed>>

\* Lines 631-632: os.makedirs(local_dir, exist_ok=True).
DD_Makedirs ==
    /\ At("download_directory", "makedirs")
    /\ Use("makedirs")
    /\ \E made \in BOOLEAN :
         IF made THEN Jump("list") ELSE Raise(Exc("OSError", 632, Top.local))
    /\ UNCHANGED <<session, inputs, fs, attempt_obs>>

\* Lines 634-636: the recursive listing of the remote directory.
DD_List ==
    /\ At("download_directory", "list")
    /\ Issue("list", Top.remote, Top.remote)
    /\ \E output \in ListingOutputs :
         stack' = SetTop([Top EXCEPT !.lines = output, !.pc = "listed"])
    /\ UNCHANGED <<session, inputs, fs, control, attempt_obs>>

\* Lines 638-639.
DD_CheckListing ==
    /\ At("download_directory", "listed")
    /\ IF StartsWithError(Top.lines) \/ SaysNoSuchFile(Top.lines)
       THEN Raise(Exc("FileNotFoundError", 639, Top.remote))
       ELSE Jump("next")
    /\ UNCHANGED <<session, inputs, fs, observed>>

\* Lines 642-654: the next line of the listing; an empty line is skipped,
\* for a path the local directory is made and download_file is called.
DD_Next ==
    /\ At("download_directory", "next")
    /\ LET paths == SplitLines(Top.lines)
           remote_path == paths[Top.i]
       IN  IF Top.i > Len(paths)
           THEN Return /\ UNCHANGED <<count, last_cmd>>
           ELSE IF remote_path = ""
           THEN /\ stack' = SetTop([Top EXCEPT !.i = @ + 1])
                /\ UNCHANGED <<control, count, last_cmd>>
           ELSE /\ Use("makedirs")
                /\ \E made \in BOOLEAN :
                     IF made
                     THEN Invoke(Frame("download_file", Top.self,
                                       LocalPathOf(remote_path), remote_path,
                                       Top.max_retries), "downloaded")
                     ELSE Raise(Exc("OSError", 651, LocalPathOf(remote_path)))
    /\ UNCHANGED <<session, inputs, fs, attempt_obs>>

\* Line 654 returned: the loop goes on.
DD_Downloaded ==
    /\ At("download_directory", "downloaded")
    /\ stack' = SetTop([Top EXCEPT !.i = @ + 1, !.pc = "next"])
    /\ UNCHANGED <<session, inputs, fs, control, observed>>

(***************************************************************************)
(* FileTransfer.list_remote_files, lines 656-675.                          *)
(***************************************************************************)
\* A caller calls list_remote_files on an existing handler.
Call_list_remote_files(self, key) ==
    /\ self \in handlers
    /\ Begin("list_remote_files", self, "", RemoteDir, 0, key, {})

\* Lines 665-666.
LRF_Ensure ==
    /\ At("list_remote_files", "start")
    /\ Invoke(Frame("_ensure_ssh_access", Top.self, "", "", 0), "list")
    /\ UNCHANGED <<session, inputs, fs, observed>>

\* Lines 668-675: the listing command; the method returns the paths of the
\* output, or the empty list for an output that reports an error.
LRF_List ==
    /\ At("list_remote_files", "list")
    /\ Issue("list", Top.remote, Top.remote)
    /\ \E output \in ListingOutputs : Return
    /\ UNCHANGED <<session, inputs, fs, attempt_obs>>

(***************************************************************************)
(* FileTransfer.upload_directory, lines 563-618.                           *)
(***************************************************************************)
\* A caller calls upload_directory on an existing handler.
Call_upload_directory(self, max_retries, key, files) ==
    /\ self \in handlers
    /\ Begin("upload_directory", self, LocalDir, RemoteDir, max_retries, key, files)

\* Lines 571-572.
UD_CheckDir ==
    /\ At("upload_directory", "start")
    /\ IF Top.local \in fs
       THEN Jump("ensure")
       ELSE Raise(Exc("NotADirectoryError", 572, Top.local))
    /\ UNCHANGED <<session, inputs, fs, observed>>

\* Lines 574-575.
UD_Ensure ==
    /\ At("upload_directory", "ensure")
    /\ Invoke(Frame("_ensure_ssh_access", Top.self, "", "", 0), "mkdir")
    /\ UNCHANGED <<session, inputs, fs, observed>>

\* Lines 577-578.
UD_Mkdir ==
    /\ At("upload_directory", "mkdir")
    /\ Issue("mkdir", Top.remote, Top.remote)
    /\ Jump("mktemp")
    /\ UNCHANGED <<session, inputs, fs, attempt_obs>>

\* Lines 580-583: the temporary archive file is created (delete=False), or
\* cannot be.
UD_MkTemp ==
    /\ At("upload_directory", "mktemp")
    /\ \E created \in BOOLEAN :
         IF created
         THEN /\ fs' = fs \cup {TempArchive}
              /\ Use("mktemp")
              /\ Jump("tar")
         ELSE /\ Raise(Exc("OSError", 582, TempArchive))
              /\ UNCHANGED <<fs, count, last_cmd>>
    /\ UNCHANGED <<session, inputs, attempt_obs>>

\* A variant without the finally clause: the exception leaves the method.
UD_RaiseInTry_NoFinally(e) == Raise(e)

\* An exception raised inside the try block of lines 585-613: the finally
\* clause runs, and the exception goes on afterwards.
UD_RaiseInTry(e) ==
    /\ stack' = SetTop([Top EXCEPT !.pending = e, !.pc = "finally"])
    /\ exc' = NoExc
    /\ UNCHANGED <<result, error>>

\* Lines 585-591: tar -czf, check=True.
UD_Tar ==
    /\ At("upload_directory", "tar")
    /\ Use("tar")
    /\ \E returncode \in {"0", "1"} :
         IF returncode = "0"
         THEN Jump("relay")
         ELSE UD_RaiseInTry(Exc("CalledProcessError", 587, TempArchive))
    /\ UNCHANGED <<session, inputs, fs, attempt_obs>>

\* Lines 593-599.
UD_Relay ==
    /\ At("upload_directory", "relay")
    /\ Invoke(Frame("upload_via_curl", Top.self, TempArchive, RemoteArchive,
                    Top.max_retries), "relay_done")
    /\ UNCHANGED <<session, inputs, fs, observed>>

\* Line 599 returned.
UD_RelayReturned ==
    /\ At("upload_directory", "relay_done")
    /\ Jump("extract")
    /\ UNCHANGED <<session, inputs, fs, observed>>

\* A variant of lines 600-603 whose fallback is the secure copy alone: the
\* direct path of upload_file, without its mkdir and its relay uploader.
UD_RelayFailed_Direct ==
    /\ Caught("upload_directory", "relay_done")
    /\ exc' = NoExc
    /\ stack' = Append(SetTop([Top EXCEPT !.pc = "fallback_done"]),
                       [Frame("upload_file", Top.self, TempArchive, RemoteArchive,
                              Top.max_retries) EXCEPT !.pc = "ssh_info"])
    /\ UNCHANGED <<session, inputs, fs, result, error, observed>>

\* Lines 600-603: the relay uploader raised; upload_file is the fallback.
UD_RelayFailed ==
    /\ Caught("upload_directory", "relay_done")
    /\ exc' = NoExc
    /\ stack' = Append(SetTop([Top EXCEPT !.pc = "fallback_done"]),
                       Frame("upload_file", Top.self, TempArchive, RemoteArchive,
                             Top.max_retries))
    /\ UNCHANGED <<session, inputs, fs, result, error, observed>>

\* Line 603 returned.
UD_FallbackReturned ==
    /\ At("upload_directory", "fallback_done")
    /\ Jump("extract")
    /\ UNCHANGED <<session, inputs, fs, observed>>

\* Line 603 raised, inside the except clause: to the finally clause.
UD_FallbackFailed ==
    /\ Caught("upload_directory", "fallback_done")
    /\ UD_RaiseInTry(exc)
    /\ UNCHANGED <<session, inputs, fs, observed>>

\* A variant of lines 605-613 that goes back to the transfer when the
\* extraction fails.
UD_Extract_Retried ==
    /\ At("upload_directory", "extract")
    /\ Issue("extract", RemoteArchive, Top.remote)
    /\ \E output \in RemoteOutputs("success") :
         IF Contains("success", output) THEN Jump("finally") ELSE Jump("relay")
    /\ UNCHANGED <<session, inputs, fs, attempt_obs>>

\* Lines 605-613: extraction on the remote system.
UD_Extract ==
    /\ At("upload_directory", "extract")
    /\ Issue("extract", RemoteArchive, Top.remote)
    /\ \E output \in RemoteOutputs("success") :
         IF Contains("success", output)
         THEN Jump("finally")
         ELSE UD_RaiseInTry(Exc("RuntimeError", 611, RemoteArchive))
    /\ UNCHANGED <<session, inputs, fs, attempt_obs>>

\* Lines 615-618: the temporary archive is removed; then the method returns,
\* or the exception of the try block goes on.
UD_Finally ==
    /\ At("upload_directory", "finally")
    /\ IF TempArchive \in fs
       THEN /\ fs' = fs \ {TempArchive}
            /\ Use("unlink")
       ELSE UNCHANGED <<fs, count, last_cmd>>
    /\ IF Top.pending = NoExc THEN Return ELSE Raise(Top.pending)
    /\ UNCHANGED <<session, inputs, attempt_obs>>

(***************************************************************************)
(* Exceptions that no try block of the frame on top handles.               *)
(***************************************************************************)
\* The frames that handle an exception of a callee: upload_file around the
\* relay uploader (lines 241-247), upload_directory inside its try block
\* (lines 585-618).
Handles(f) ==
    \/ f.fn = "upload_file" /\ f.pc = "relay_done"
    \/ f.fn = "upload_directory" /\ f.pc \in {"relay_done", "fallback_done"}

\* The exception of a callee leaves the method on top as well.
Propagate ==
    /\ stack # <<>>
    /\ exc # NoExc
    /\ ~Handles(Top)
    /\ Raise(exc)
    /\ UNCHANGED <<session, inputs, fs, observed>>

(***************************************************************************)
(* The specification.                                                      *)
(***************************************************************************)
Init ==
    /\ is_connected = FALSE
    /\ conn = Disconnected
    /\ handlers = {}
    /\ stack = <<>>
    /\ exc = NoExc
    /\ env_key = "unset"
    /\ fs = {}
    /\ call = NoCall
    /\ result = "none"
    /\ error = NoExc
    /\ count = NoCounts
    /\ slept = 0
    /\ xfer_ok = FALSE
    /\ verified = FALSE
    /\ last_cmd = NoCmd

Next ==
    \/ \E id \in Instances, key \in KeyStates : Construct(id, key)
    \/ \E id \in Instances, m \in RetryInputs, files \in SUBSET {LocalFile} :
         Call_upload_via_curl(id, m, files)
    \/ \E id \in Instances, m \in RetryInputs, key \in KeyStates,
          files \in SUBSET {LocalFile} :
         Call_upload_file(id, m, key, files)
    \/ \E id \in Instances, m \in RetryInputs, key \in KeyStates :
         Call_download_file(id, m, key)
    \/ \E id \in Instances, m \in RetryInputs, key \in KeyStates,
          files \in SUBSET {LocalDir} :
         Call_upload_directory(id, m, key, files)
    \/ Init_Ensure
    \/ Init_Done
    \/ Ensure_CheckConnected
    \/ Ensure_KeyPath
    \/ Ensure_GetIp
    \/ Ensure_ConnectFirst
    \/ Ensure_ConnectSecond
    \/ Ensure_Check
    \/ UVC_CheckLocal
    \/ UVC_Size
    \/ UVC_SmallLoop
    \/ UVC_SmallUpload
    \/ UVC_SmallFetch
    \/ UVC_SmallVerify
    \/ UVC_SmallBackoff
    \/ UVC_LargeLoop
    \/ UVC_LargeServer
    \/ UVC_LargeUpload
    \/ UVC_LargeFetch
    \/ UVC_LargeVerify
    \/ UVC_LargeBackoff
    \/ UVC_Manual
    \/ UVC_ManualUrl
    \/ UVC_ManualFetch
    \/ UVC_ManualVerify
    \/ UVC_Exhausted
    \/ UF_CheckLocal
    \/ UF_Ensure
    \/ UF_Mkdir
    \/ UF_Relay
    \/ UF_RelayReturned
    \/ UF_RelayFailed
    \/ UF_SshInfo
    \/ UF_Key
    \/ UF_ScpLoop
    \/ UF_Scp
    \/ UF_Verify
    \/ UF_Backoff
    \/ UF_Exhausted
    \/ DF_Ensure
    \/ DF_Makedirs
    \/ DF_SshInfo
    \/ DF_Key
    \/ DF_PreVerify
    \/ DF_ScpLoop
    \/ DF_Scp
    \/ DF_Verify
    \/ DF_Backoff
    \/ DF_Exhausted
    \/ UD_CheckDir
    \/ UD_Ensure
    \/ UD_Mkdir
    \/ UD_MkTemp
    \/ UD_Tar
    \/ UD_Relay
    \/ UD_RelayReturned
    \/ UD_RelayFailed
    \/ UD_FallbackReturned
    \/ UD_FallbackFailed
    \/ UD_Extract
    \/ UD_Finally
    \/ \E id \in Instances, m \in RetryInputs, key \in KeyStates :
         Call_download_directory(id, m, key)
    \/ DD_Ensure
    \/ DD_Makedirs
    \/ DD_List
    \/ DD_CheckListing
    \/ DD_Next
    \/ DD_Downloaded
    \/ \E id \in Instances, key \in KeyStates : Call_list_remote_files(id, key)
    \/ LRF_Ensure
    \/ LRF_List
    \/ Propagate
    \/ CallerGoesOn

Spec == Init /\ [][Next]_vars

(***************************************************************************)
(* Handlers of two instances in one process: the constructor and the       *)
(* single-file transfers, called for instance "A" and for instance "B".    *)
(***************************************************************************)
TwoInstances == {"A", "B"}

SharedNext ==
    \/ \E id \in TwoInstances, key \in KeyStates : Construct(id, key)
    \/ \E id \in TwoInstances, m \in RetryInputs, key \in KeyStates,
          files \in SUBSET {LocalFile} :
         Call_upload_file(id, m, key, files)
    \/ \E id \in TwoInstances, m \in RetryInputs, key \in KeyStates :
         Call_download_file(id, m, key)
    \/ Init_Ensure
    \/ Init_Done
    \/ Ensure_CheckConnected
    \/ Ensure_KeyPath
    \/ Ensure_GetIp
    \/ Ensure_ConnectFirst
    \/ Ensure_ConnectSecond
    \/ Ensure_Check
    \/ UVC_CheckLocal
    \/ UVC_Size
    \/ UVC_SmallLoop
    \/ UVC_SmallUpload
    \/ UVC_SmallFetch
    \/ UVC_SmallVerify
    \/ UVC_SmallBackoff
    \/ UVC_LargeLoop
    \/ UVC_LargeServer
    \/ UVC_LargeUpload
    \/ UVC_LargeFetch
    \/ UVC_LargeVerify
    \/ UVC_LargeBackoff
    \/ UVC_Manual
    \/ UVC_ManualUrl
    \/ UVC_ManualFetch
    \/ UVC_ManualVerify
    \/ UVC_Exhausted
    \/ UF_CheckLocal
    \/ UF_Ensure
    \/ UF_Mkdir
    \/ UF_Relay
    \/ UF_RelayReturned
    \/ UF_RelayFailed
    \/ UF_SshInfo
    \/ UF_Key
    \/ UF_ScpLoop
    \/ UF_Scp
    \/ UF_Verify
    \/ UF_Backoff
    \/ UF_Exhausted
    \/ DF_Ensure
    \/ DF_Makedirs
    \/ DF_SshInfo
    \/ DF_Key
    \/ DF_PreVerify
    \/ DF_ScpLoop
    \/ DF_Scp
    \/ DF_Verify
    \/ DF_Backoff
    \/ DF_Exhausted
    \/ Propagate
    \/ CallerGoesOn

SharedSpec == Init /\ [][SharedNext]_vars

(***************************************************************************)
(* _get_instance_ip on its own: the status data is drawn from the shapes   *)
(* and records below, and the method is applied to it.                     *)
(***************************************************************************)
HostH3 == <<"h", "3">>

\* "ssh u@<host><fragment>", the format named at line 133.
CmdPrefix == <<"s", "s", "h", " ", "u", "@">>

\* The text after the host, and the port a reader of the command takes from
\* it: none, a port, port 0, a port that is no number.
NoPort == [text |-> <<>>, port |-> DefaultPort]
Port2200 == [text |-> <<" ", "-", "p", " ", "2", "2", "0", "0">>, port |-> 2200]
PortZero == [text |-> <<" ", "-", "p", " ", "0">>, port |-> 0]
PortWord == [text |-> <<" ", "-", "p", " ", "x", "y">>, port |-> DefaultPort]

PortFragments == {NoPort, Port2200, PortZero, PortWord}

Cmd(host, fragment) == CmdPrefix \o host \o fragment.text

\* An SSH command without a user@host fragment.
NoAtCmd == <<"s", "s", "h", " ", "h", "1">>

\* Fields of a record: no field, one field, and (with @@) several.
NoField == [k \in {} |-> JNull]
Field(k, v) == k :> v
Obj(fields) == JDict(fields)
EmptyStr == JStr(<<>>)
H2 == JStr(HostH2)

\* Values of ssh.port that are numbers or numeric strings, and values that
\* int() does not take.
NumericPorts == {JInt(2222), JInt(0), JInt(0 - 5), JStr(<<"0">>), JStr(<<"-", "1">>)}
NonNumericPorts == {JStr(<<"a", "b", "c">>), JStr(<<"2", "2", "x">>), JList(<<JInt(22)>>)}

\* The sshCommand field of a record: absent or without a user@host
\* fragment; a command; a value that is no string.
LackingCommands ==
    {NoField, Field("sshCommand", EmptyStr), Field("sshCommand", JNull),
     Field("sshCommand", JStr(NoAtCmd))}
UsableCommands == {Field("sshCommand", JStr(Cmd(HostH1, f))) : f \in PortFragments}
CommandOptions == LackingCommands \cup UsableCommands \cup {Field("sshCommand", JInt(5))}

\* The lower-priority fields of a record.  Those that name no host:
LackingLower ==
    {NoField, Field("ip", EmptyStr), Field("ipAddress", EmptyStr),
     Field("ssh", Obj(NoField)), Field("ssh", Obj(Field("port", JInt(2222)))),
     Field("network", Obj(NoField)), Field("status", Obj(NoField)),
     Field("instance", Obj(NoField)),
     Field("instance", Obj(Field("sshCommand", JStr(NoAtCmd))))}

\* Those in which one level names a host, nothing above it being present:
UsableLower ==
    {Field("ip", H2), Field("ipAddress", H2), Field("ssh", Obj(Field("host", H2))),
     Field("network", Obj(Field("ip", H2))), Field("status", Obj(Field("ip", H2))),
     Field("instance", Obj(Field("address", H2))),
     Field("instance", Obj(Field("sshCommand", JStr(NoAtCmd)) @@ Field("hostname", H2)))}
    \cup {Field("ssh", Obj(Field("host", H2) @@ Field("port", p))) :
             p \in NumericPorts \cup NonNumericPorts}
    \cup {Field("instance", Obj(Field("sshCommand", JStr(Cmd(HostH2, f))))) :
             f \in PortFragments}

\* An empty ip next to an ipAddress: the two fields of one level.
Level2Lower == {Field("ip", EmptyStr) @@ Field("ipAddress", H2)}

\* Those in which ssh, network or status is an object that names no host,
\* and the next level names one.
StoppingLower ==
    {Field("ssh", Obj(NoField)) @@ Field("network", Obj(Field("ip", H2))),
     Field("network", Obj(NoField)) @@ Field("status", Obj(Field("ip", H2))),
     Field("status", Obj(NoField)) @@ Field("instance", Obj(Field("ip", H2)))}

\* Those in which a field is empty, or is no object where an object is
\* looked for, and the next level names a host.
PassedLower ==
    {Field("ipAddress", EmptyStr) @@ Field("ssh", Obj(Field("host", H2))),
     Field("ssh", H2) @@ Field("network", Obj(Field("ip", H2))),
     Field("network", H2) @@ Field("status", Obj(Field("ip", H2))),
     Field("status", H2) @@ Field("instance", Obj(Field("ip", H2)))}

MixedLower == Level2Lower \cup StoppingLower \cup PassedLower

LowerOptions == LackingLower \cup UsableLower \cup MixedLower

\* The record of instance "A" with the given fields, and the record of
\* another instance.
RecordOf(command, lower) == JDict(Field("id", JStr(<<"A">>)) @@ command @@ lower)
OtherRecord == JDict(Field("id", JStr(<<"B">>)) @@ Field("ip", JStr(HostH3)))

Records == {RecordOf(c, l) : c \in CommandOptions, l \in LowerOptions}

\* The shapes of the status data: where the list of records is (or that the
\* record is not listed, or that the status is no object), and whether
\* get_gpu_status() hands it over as text.
ListedForms == {"instances", "data", "data.instances"}

\* Status data in which two of the keys occur, named by what each holds: a
\* list with the record of instance "A" (*), a list without it, an object.
ShadowedForms == {"instances,data*", "instances,data.instances*"}
TwoKeyForms ==
    ShadowedForms \cup {"instances*,data", "instances:object,data*",
                        "instances:object,data.instances*"}

Forms == ListedForms \cup {"unlisted", "number"} \cup TwoKeyForms
Shapes == [form : Forms, text : BOOLEAN] \cup {[form |-> "malformed", text |-> TRUE]}

StatusOf(shape, record) ==
    LET listed == JList(<<OtherRecord, record>>)
        others == JList(<<OtherRecord>>)
        status ==
            CASE shape.form = "instances" -> JDict(Field("instances", listed))
              [] shape.form = "instances,data*" ->
                    JDict(Field("instances", others) @@ Field("data", listed))
              [] shape.form = "instances,data.instances*" ->
                    JDict(Field("instances", others)
                          @@ Field("data", JDict(Field("instances", listed))))
              [] shape.form = "instances*,data" ->
                    JDict(Field("instances", listed) @@ Field("data", others))
              [] shape.form = "instances:object,data*" ->
                    JDict(Field("instances", Obj(NoField)) @@ Field("data", listed))
              [] shape.form = "instances:object,data.instances*" ->
                    JDict(Field("instances", Obj(NoField))
                          @@ Field("data", JDict(Field("instances", listed))))
              [] shape.form = "data" -> JDict(Field("data", listed))
              [] shape.form = "data.instances" ->
                    JDict(Field("data", JDict(Field("instances", listed))))
              [] shape.form = "unlisted" ->
                    JDict(Field("instances", JList(<<OtherRecord>>)))
              [] shape.form = "number" -> JInt(7)
              [] shape.form = "malformed" -> JNull
    IN  IF shape.form = "malformed" THEN JText(FALSE, JNull)
        ELSE IF shape.text THEN JText(TRUE, status)
        ELSE status

\* The frame of a call of _get_instance_ip: what get_gpu_status() returns
\* (and the shape and record it was made of), and the value returned.
LocatorFrame(self, shape, record) ==
    [fn |-> "_get_instance_ip", pc |-> "start", self |-> self, shape |-> shape,
     record |-> record, status_data |-> StatusOf(shape, record), ret |-> NotFound]

\* A handler of instance "A" calls _get_instance_ip.
LocatorInit ==
    /\ is_connected = FALSE
    /\ conn = Disconnected
    /\ handlers = {"A"}
    /\ \E shape \in Shapes, record \in Records :
         stack = <<LocatorFrame("A", shape, record)>>
    /\ exc = NoExc
    /\ env_key = "ok"
    /\ fs = {}
    /\ call = [fn |-> "_get_instance_ip", self |-> "A", local |-> "", remote |-> "",
               max_retries |-> 0]
    /\ result = "running"
    /\ error = NoExc
    /\ count = NoCounts
    /\ slept = 0
    /\ xfer_ok = FALSE
    /\ verified = FALSE
    /\ last_cmd = NoCmd

\* Lines 86-220: the method runs to its return, or to the exception that
\* leaves it.
GII_Run ==
    /\ At("_get_instance_ip", "start")
    /\ LET ip_info == GetInstanceIp(Top.status_data, Top.self)
       IN  /\ stack' = SetTop([Top EXCEPT !.pc = "done", !.ret = ip_info])
           /\ result' = IF ip_info.kind = "raise" THEN "raised" ELSE "returned"
    /\ count' = Bump(count, "get_status")
    /\ UNCHANGED <<session, inputs, fs, exc, error, slept, xfer_ok, verified, last_cmd>>

LocatorNext == GII_Run

LocatorSpec == LocatorInit /\ [][LocatorNext]_vars

(***************************************************************************)
(* Properties.                                                             *)
(***************************************************************************)
Max0(n) == IF n > 0 THEN n ELSE 0

\* The public call has finished.
Finished == stack = <<>> /\ result \in {"returned", "raised"}

\* This step is the `return` of the method on top.
Returning ==
    /\ exc = NoExc
    /\ stack' = Pop
    /\ exc' = NoExc
    /\ Len(stack) = 1 => result' = "returned"

\* This step raises, out of the method on top, an exception of the given
\* type at the given line.
Raising(type, line) ==
    /\ stack' = Pop
    /\ IF Len(stack) = 1
       THEN result' = "raised" /\ error'.type = type /\ error'.line = line
       ELSE exc'.type = type /\ exc'.line = line

\* The relay attempts made in the public call so far.
RelayAttempts == count["relay_small"] + count["relay_lookup"]

\* The part of upload_file after the relay uploader: lines 249-309.
DirectPcs == {"ssh_info", "key", "scp_loop", "scp", "verify", "backoff", "exhausted"}

\* C1, part 1: wherever upload_file is in its direct path, its max_retries is
\* the value the caller passed, the attempts it counts are the secure copies
\* made (none was used up by the relay attempts), and when the loop is
\* exhausted exactly max_retries secure copies have been made.
C1_DirectBudget ==
    \A i \in DOMAIN stack :
        (stack[i].fn = "upload_file" /\ stack[i].pc \in DirectPcs) =>
            /\ stack[i].max_retries = call.max_retries
            /\ stack[i].pc = "scp_loop" => stack[i].attempt = count["scp"]
            /\ stack[i].pc = "exhausted" => count["scp"] = Max0(call.max_retries)

\* C1, part 2: every exception of the relay uploader leads upload_file into
\* its direct path, and a direct attempt that is verified makes it return.
C1_FallbackStep ==
    /\ Caught("upload_file", "relay_done") =>
          (exc' = NoExc /\ Len(stack') = Len(stack) /\ Top'.pc = "ssh_info"
           /\ Top'.max_retries = call.max_retries /\ Top'.attempt = 0)
    /\ (At("upload_file", "verify") /\ verified') => Returning

\* C1: in upload_file, whenever the relay uploader fails with any exception,
\* the direct secure-copy path is run with exactly the max_retries the caller
\* passed (not reduced by the relay attempts already made), and if a direct
\* attempt succeeds and is verified, upload_file returns normally.
C1_FallbackKeepsBudget == [](C1_DirectBudget) /\ [][C1_FallbackStep]_vars

\* C1 witness: every relay attempt failed, and the last of max_retries
\* secure copies was verified.
C1_Witness ==
    /\ call.fn = "upload_file"
    /\ result = "returned"
    /\ call.max_retries = MaxRetries
    /\ count["relay_small"] = MaxRetries
    /\ count["scp"] = MaxRetries
    /\ xfer_ok /\ verified

\* C2, part 1: the step of the up-front check either raises the not-found
\* error of line 518, no secure copy and no sleep having happened, or the
\* output it read reports 'exists'.
C2_PreVerifyStep ==
    At("download_file", "pre_verify") =>
        \/ /\ Raising("FileNotFoundError", 518)
           /\ Top.attempt = 0
           /\ count'["scp"] = count["scp"]
           /\ count'["sleep"] = count["sleep"]
           /\ call.fn = "download_file" => (count'["scp"] = 0 /\ count'["sleep"] = 0)
        \/ /\ Len(stack') = Len(stack)
           /\ Contains("exists", Top'.out)

\* C2, part 2: a download_file call that ended in that error made no secure
\* copy and slept for no backoff; one that made a secure copy had read
\* 'exists'.
C2_NoCopy ==
    call.fn = "download_file" =>
        /\ (result = "raised" /\ error.line = 518) =>
              (error.type = "FileNotFoundError" /\ count["scp"] = 0 /\ count["sleep"] = 0)
        /\ (count["scp"] > 0 /\ stack # <<>>) => Contains("exists", stack[1].out)

\* C2: in download_file, if the up-front remote existence check does not
\* report 'exists', a not-found error is raised and no secure-copy command is
\* executed for that call (no copy attempt, no backoff sleep), for every
\* max_retries.
C2_AbsentRaisesBeforeCopy == [](C2_NoCopy) /\ [][C2_PreVerifyStep]_vars

\* C2 witness: the check reported absence, with a full retry budget.
C2_Witness ==
    /\ call.fn = "download_file"
    /\ call.max_retries = MaxRetries
    /\ result = "raised"
    /\ error.line = 518
    /\ count["pre_verify"] = 1

\* The places where an attempt of a retry loop begins.
AttemptStarts ==
    {<<"upload_via_curl", "small_upload">>, <<"upload_via_curl", "large_server">>,
     <<"upload_file", "scp">>, <<"download_file", "scp">>}

\* The heads of the retry loops.
LoopHeads ==
    {<<"upload_via_curl", "small_loop">>, <<"upload_via_curl", "large_loop">>,
     <<"upload_file", "scp_loop">>, <<"download_file", "scp_loop">>}

C4_RelayRetries ==
    /\ \A i \in DOMAIN stack :
          (stack[i].fn = "upload_via_curl"
           /\ stack[i].pc \in {"small_upload", "small_fetch", "small_verify",
                               "small_backoff", "large_server", "large_upload",
                               "large_fetch", "large_verify", "large_backoff"}) =>
             stack[i].attempt < stack[i].max_retries
    /\ call.fn = "upload_via_curl" =>
          /\ RelayAttempts <= Max0(call.max_retries)
          /\ (result = "raised" /\ count["input"] = 0 /\ call.local \in fs) =>
                /\ error = Exc("RuntimeError", 481, call.local)
                /\ RelayAttempts = Max0(call.max_retries)
    /\ exc.line = 481 => (exc.type = "RuntimeError" /\ exc.arg \in {LocalFile, TempArchive})

\* C4 witness: max_retries attempts failed, the last one at its verification.
C4_Witness ==
    /\ call.fn = "upload_via_curl"
    /\ call.max_retries = MaxRetries
    /\ result = "raised"
    /\ error.line = 481
    /\ count["relay_lookup"] = MaxRetries
    /\ count["verify"] >= 1
    /\ xfer_ok /\ ~verified

\* C5: upload_file, upload_via_curl and download_file return normally only
\* if, in the attempt that returns, the transfer step succeeded and the
\* verification after it was positive; otherwise the call raises.
C5_NoPartialSuccess ==
    (call.fn \in {"upload_file", "upload_via_curl", "download_file"} /\ stack = <<>>) =>
        /\ result \in {"returned", "raised"}
        /\ result = "returned" => (xfer_ok /\ verified)
        /\ result = "raised" => (error # NoExc /\ ~(xfer_ok /\ verified))

\* C5 witness: a download returned after a copy that was verified on the
\* second attempt.
C5_Witness ==
    /\ call.fn = "download_file"
    /\ result = "returned"
    /\ count["scp"] = 2
    /\ LocalFile \in fs

\* C6, part 1: with the session connected, the first step of
\* _ensure_ssh_access is its return; it touches neither the session nor any
\* collaborator (no key-path check, no endpoint resolution, no handshake).
C6_EnsureStep ==
    (At("_ensure_ssh_access", "start") /\ is_connected) =>
        /\ Returning
        /\ is_connected'
        /\ conn' = conn
        /\ count' = count

\* C6, part 2: a public call of an existing handler finds the session
\* connected and makes no handshake; and a call that finds the session
\* connected (it is connected and the call made no handshake) checks no key
\* path and resolves no endpoint.
C6_NoMoreHandshakes ==
    /\ call.fn \notin {"none", "__init__"} => (is_connected /\ count["handshake"] = 0)
    /\ (is_connected /\ count["handshake"] = 0) =>
          (count["key_check"] = 0 /\ count["get_status"] = 0)

\* C6: ensure-access is idempotent: with the session connected it returns
\* immediately, performing no key-path check, no endpoint resolution and no
\* handshake, and leaves the session connected; after one successful
\* connection further ensure-access calls cause no additional handshake.
C6_EnsureIdempotent == [](C6_NoMoreHandshakes) /\ [][C6_EnsureStep]_vars

\* C6 witness: upload_directory returned after its fallback to upload_file,
\* so _ensure_ssh_access ran twice on the connected session.
C6_Witness ==
    /\ call.fn = "upload_directory"
    /\ result = "returned"
    /\ count["scp"] >= 1
    /\ count["handshake"] = 0
    /\ is_connected

\* C7: when not connected, _ensure_ssh_access attempts the handshake with the
\* first candidate username; the second candidate is attempted once, and only
\* if the first attempt failed; if both fail the error of line 82 is raised
\* and the session is left disconnected; if either succeeds the call returns
\* with the session connected.  At most two handshakes happen per call.
C7_TwoCandidates ==
    /\ count["handshake"] <= 2
    /\ \A i \in DOMAIN stack :
          stack[i].fn = "_ensure_ssh_access" =>
             /\ stack[i].pc = "connect_first" =>
                   (count["handshake"] = 0 /\ ~is_connected)
             /\ stack[i].pc = "connect_second" =>
                   (count["handshake"] = 1 /\ ~is_connected
                    /\ ~ConnectSucceeded(stack[i].out))
             /\ stack[i].pc = "check" => count["handshake"] \in {1, 2}
    /\ (count["handshake"] = 1 /\ is_connected) => conn.username = FirstUsername
    /\ (count["handshake"] = 2 /\ is_connected) => conn.username = SecondUsername
    /\ (count["handshake"] = 1 /\ stack = <<>>) => (result = "returned" /\ is_connected)
    /\ (count["handshake"] = 2 /\ stack = <<>>) =>
          \/ result = "returned" /\ is_connected
          \/ result = "raised" /\ error = Exc("RuntimeError", 82, "ssh_result")
             /\ ~is_connected /\ conn = Disconnected
    /\ (result = "raised" /\ error.line = 82) => count["handshake"] = 2

\* C7 witness: the first candidate was refused and the second accepted.
C7_Witness ==
    /\ call.fn = "__init__"
    /\ result = "returned"
    /\ count["handshake"] = 2
    /\ is_connected
    /\ conn.username = SecondUsername

\* C8: when not connected and the private-key path is unset or names no
\* file, _ensure_ssh_access raises at once: no status fetch, no endpoint
\* resolution, no handshake, nothing is retried.  Likewise an unresolved
\* endpoint raises before any handshake.
C8_ConfigurationErrors ==
    /\ count["key_check"] <= 1
    /\ count["get_status"] <= 1
    /\ count["key_check"] = 1 =>
          \/ env_key = "ok"
          \/ /\ count["get_status"] = 0
             /\ count["handshake"] = 0
             /\ count["sleep"] = 0
             /\ count["remote_cmd"] = 0
             /\ LET e == IF stack = <<>> THEN error ELSE exc
                IN  /\ env_key = "unset" => e = Exc("ValueError", 44, "SSH_PRIVATE_KEY_PATH")
                    /\ env_key = "missing" =>
                          e = Exc("FileNotFoundError", 48, "SSH_PRIVATE_KEY_PATH")
             /\ stack = <<>> => result = "raised"
    /\ count["get_status"] = 1 => (env_key = "ok" /\ count["key_check"] = 1)
    /\ count["handshake"] > 0 => count["get_status"] = 1
    /\ (result = "raised" /\ error.line \in {54, 56}) =>
          (count["handshake"] = 0 /\ count["get_status"] = 1 /\ ~is_connected)
    /\ \A i \in DOMAIN stack :
          (stack[i].fn = "_ensure_ssh_access"
           /\ stack[i].pc \in {"connect_first", "connect_second", "check"}) =>
             (stack[i].host # JNull /\ stack[i].port # 0)

\* C8 witness: the key path names no file.
C8_Witness ==
    /\ call.fn = "__init__"
    /\ env_key = "missing"
    /\ result = "raised"
    /\ error.line = 48
    /\ count["key_check"] = 1

\* The part of upload_via_curl for the top tier: lines 448-478.
ManualPcs == {"manual", "manual_url", "manual_fetch", "manual_verify"}

\* C9, part 1: a file of 2000 MB or more uses no relay host, and no remote
\* command is issued before a URL was typed; a call that raised the error of
\* line 478 without a fetch issued no remote command at all.
C9_NoCommand ==
    /\ \A i \in DOMAIN stack :
          (stack[i].fn = "upload_via_curl" /\ stack[i].size >= LargeLimit) =>
             /\ stack[i].pc \in ManualPcs
             /\ stack[i].attempt = 0
             /\ stack[i].url = "" => stack[i].pc \in {"manual", "manual_url"}
    /\ call.fn = "upload_via_curl" =>
          /\ (stack # <<>> /\ Top.size >= LargeLimit) =>
                /\ RelayAttempts = 0
                /\ Top.url = "" => count["remote_cmd"] = 0
          /\ (result = "raised" /\ error.line = 478 /\ count["fetch"] = 0) =>
                (count["remote_cmd"] = 0 /\ count["sleep"] = 0 /\ RelayAttempts = 0)

\* C9, part 2: with an empty URL typed, the next step raises the error of
\* line 478 and issues no command.
C9_EmptyUrlStep ==
    (At("upload_via_curl", "manual_url") /\ Top.url = "") =>
        /\ Raising("RuntimeError", 478)
        /\ count' = count
        /\ last_cmd' = last_cmd

\* C9: for a file in the top tier (2000 MB or more) with no manual URL
\* supplied, upload_via_curl raises a fatal error and issues no remote
\* command (no fetch, no verification), whatever max_retries is.
C9_TopTierNoUrl == [](C9_NoCommand) /\ [][C9_EmptyUrlStep]_vars

\* C9 witness: Enter was pressed at the prompt.
C9_Witness ==
    /\ call.fn = "upload_via_curl"
    /\ call.max_retries = MaxRetries
    /\ result = "raised"
    /\ error = Exc("RuntimeError", 478, "large file")
    /\ count["input"] = 1
    /\ count["remote_cmd"] = 0

\* C10: in upload_directory, once the temporary local archive has been
\* created it no longer exists when the call finishes, whether the call
\* returns or raises at any later step.
C10_ArchiveRemoved ==
    (call.fn = "upload_directory" /\ Finished /\ count["mktemp"] > 0) =>
        (TempArchive \notin fs /\ count["unlink"] = 1)

\* C10 witness: the remote extraction failed after a direct fallback upload.
C10_Witness ==
    /\ call.fn = "upload_directory"
    /\ result = "raised"
    /\ error.line = 611
    /\ count["scp"] >= 1
    /\ count["mktemp"] = 1
    /\ TempArchive \notin fs

\* The listing names no file path.
NoFilePaths(lines) == \A k \in DOMAIN lines : lines[k] = ""

\* C11: download_directory raises, without retry and without downloading
\* anything, whenever the remote listing reports an error or yields no file
\* path (the remote directory is missing or empty).
C11_ListingFailureRaises ==
    [][(At("download_directory", "listed")
        /\ (StartsWithError(Top.lines) \/ SaysNoSuchFile(Top.lines)
            \/ NoFilePaths(Top.lines)))
       => (Raising("FileNotFoundError", 639) /\ count' = count)]_vars

\* The parts of upload_via_curl for the small and the large tier.
SmallPcs == {"small_loop", "small_upload", "small_fetch", "small_verify", "small_backoff"}
LargePcs == {"large_loop", "large_server", "large_upload", "large_fetch", "large_verify",
             "large_backoff"}

\* C12, part 1: where an upload_via_curl is, and which relay hosts its
\* public call has used, follows from the size read: under 25 MB the small
\* host only, from 25 MB and under 2000 MB the large host only (an upload
\* only after a successful lookup of the same attempt), from 2000 MB neither.
C12_TierOfSize ==
    /\ \A i \in DOMAIN stack :
          stack[i].fn = "upload_via_curl" =>
             /\ stack[i].pc \in SmallPcs => stack[i].size < SmallLimit
             /\ stack[i].pc \in LargePcs =>
                   (stack[i].size >= SmallLimit /\ stack[i].size < LargeLimit)
             /\ stack[i].pc \in ManualPcs => stack[i].size >= LargeLimit
             /\ stack[i].pc = "large_upload" =>
                   (count["relay_lookup"] > count["relay_large"])
    /\ call.fn = "upload_via_curl" =>
          /\ count["relay_large"] <= count["relay_lookup"]
          /\ count["relay_small"] > 0 => (count["relay_lookup"] = 0 /\ count["input"] = 0)
          /\ count["relay_lookup"] > 0 => (count["relay_small"] = 0 /\ count["input"] = 0)
          /\ count["input"] > 0 => (count["relay_small"] = 0 /\ count["relay_lookup"] = 0)
          /\ (stack # <<>> /\ Top.pc \notin {"start", "size"}) =>
                /\ Top.size < SmallLimit =>
                      (count["relay_lookup"] = 0 /\ count["input"] = 0)
                /\ (Top.size >= SmallLimit /\ Top.size < LargeLimit) =>
                      (count["relay_small"] = 0 /\ count["input"] = 0)
                /\ Top.size >= LargeLimit =>
                      (count["relay_small"] = 0 /\ count["relay_lookup"] = 0)

\* C12, part 2: the size is read in one step, before the first attempt, and
\* no later step of the call changes it.
C12_SizeReadOnce ==
    \A i \in DOMAIN stack :
        (stack[i].fn = "upload_via_curl" /\ i <= Len(stack')) =>
            /\ stack[i].pc # "size" => stack'[i].size = stack[i].size
            /\ stack[i].pc = "size" =>
                  /\ stack[i].attempt = 0
                  /\ call.fn = "upload_via_curl" =>
                        (RelayAttempts = 0 /\ count["input"] = 0)

\* C12: upload_via_curl selects one tier per call, decided once from the
\* local file size before the first attempt and never changed between
\* attempts: under 25 MB only the small-file host; from 25 MB and under 2000
\* MB only the large-file host, lookup then upload, the upload only after a
\* successful lookup; from 2000 MB neither host.
C12_OneTier == [](C12_TierOfSize) /\ [][C12_SizeReadOnce]_vars

\* C12 witness: a file of exactly 25 MB is in the second attempt of the
\* large tier, its upload done after the lookup.
C12_Witness ==
    /\ call.fn = "upload_via_curl"
    /\ At("upload_via_curl", "large_fetch")
    /\ Top.size = SmallLimit
    /\ Top.attempt = 1
    /\ count["relay_lookup"] = 2
    /\ count["relay_small"] = 0

\* _get_instance_ip has finished on status data that lists the record.
ResolvedListed ==
    /\ At("_get_instance_ip", "done")
    /\ Top.shape.form \in ListedForms

\* C13: for a matched record whose sshCommand holds a user@host fragment,
\* _get_instance_ip returns the host and port of that command (port 22
\* without a -p fragment), whichever shape delivered the record (text or
\* structure; instances list, data list, data.instances) and whatever
\* lower-priority fields the record has.
C13_SshCommandWins ==
    ResolvedListed =>
        \A f \in PortFragments, l \in LowerOptions :
            Top.record = RecordOf(Field("sshCommand", JStr(Cmd(HostH1, f))), l) =>
                Top.ret = Found(JStr(HostH1), f.port)

\* C13 witness: a record of the text shape data.instances with a command and
\* an ip field.
C13_Witness ==
    /\ At("_get_instance_ip", "done")
    /\ Top.shape = [form |-> "data.instances", text |-> TRUE]
    /\ Top.record = RecordOf(Field("sshCommand", JStr(Cmd(HostH1, Port2200))),
                             Field("ip", H2))
    /\ Top.ret = Found(JStr(HostH1), 2200)

\* The records that lack every recognized field: no command with a
\* user@host fragment, and lower-priority fields that name no host.
LackingRecords == {RecordOf(c, l) : c \in LackingCommands, l \in LackingLower}

C15_BadPortKeepsDefault ==
    ResolvedListed =>
        /\ \A l \in LowerOptions :
              Top.record = RecordOf(Field("sshCommand", JStr(Cmd(HostH1, PortWord))), l) =>
                  Top.ret = Found(JStr(HostH1), DefaultPort)
        /\ \A c \in LackingCommands, p \in NonNumericPorts :
              Top.record = RecordOf(c, Field("ssh", Obj(Field("host", H2) @@ Field("port", p))))
                  => Top.ret = Found(H2, DefaultPort)
        /\ \A c \in LackingCommands :
              Top.record = RecordOf(c, Field("instance",
                              Obj(Field("sshCommand", JStr(Cmd(HostH2, PortWord))))))
                  => Top.ret = Found(H2, DefaultPort)

\* C15 witness: ssh.port is "22x".
C15_Witness ==
    /\ ResolvedListed
    /\ Top.record = RecordOf(NoField, Field("ssh", Obj(Field("host", H2)
                                 @@ Field("port", JStr(<<"2", "2", "x">>)))))
    /\ Top.ret = Found(H2, DefaultPort)
    /\ result = "returned"

\* C16: every endpoint _get_instance_ip returns has a port that is a
\* positive integer.
C16_PortPositive ==
    (At("_get_instance_ip", "done") /\ Top.ret.kind = "ok") => Top.ret.port > 0

\* C18 as claimed: once a level's field is present and yields no host, no
\* lower-priority level is consulted and the result is not-found, for every
\* level (1 sshCommand, 2 ip and ipAddress, 3 ssh, 4 network, 5 status, 6
\* nested instance).
C18_NoFallThrough ==
    ResolvedListed =>
        \A c \in LackingCommands, l \in LowerOptions \ Level2Lower :
            (/\ Top.record = RecordOf(c, l)
             /\ \/ c # NoField
                \/ l \in (LackingLower \ {NoField}) \cup StoppingLower \cup PassedLower)
            => Top.ret = NotFound

\* C18, amended: past ssh, network or status (levels 3, 4, 5) the search
\* does not fall through once the field is present as an object: when the
\* object yields no host the result is not-found, whatever the next level
\* holds.  A command without user@host (level 1), an empty ip or ipAddress
\* (level 2) and an ssh, network or status that is no object are passed
\* over: the host of the next level is returned.
C18_ObjectLevelsStop ==
    ResolvedListed =>
        \A c \in LackingCommands :
            /\ \A l \in StoppingLower :
                  Top.record = RecordOf(c, l) => Top.ret = NotFound
            /\ \A l \in PassedLower \cup Level2Lower :
                  Top.record = RecordOf(c, l) => Top.ret = Found(H2, DefaultPort)
            /\ (c # NoField /\ Top.record = RecordOf(c, Field("ip", H2))) =>
                  Top.ret = Found(H2, DefaultPort)

\* C18 witness: an ssh object without host, next to a network object with an
\* ip.
C18_Witness ==
    /\ ResolvedListed
    /\ Top.record = RecordOf(NoField, Field("ssh", Obj(NoField))
                                         @@ Field("network", Obj(Field("ip", H2))))
    /\ Top.ret = NotFound

\* This step is a `return` of the method on top (not a raise).
TopReturns ==
    /\ Len(stack') = Len(stack) - 1
    /\ exc' = NoExc
    /\ Len(stack) = 1 => result' = "returned"

\* C17, part 1: in the small tier the fetch is issued with the URL the upload
\* of the same attempt printed, the check only after a fetch that reported
\* 'success'; a call that returned made no more fetches than uploads and no
\* more checks than fetches, and after a first attempt that succeeded
\* exactly one of each.
C17_SmallTierState ==
    /\ \A i \in DOMAIN stack :
          stack[i].fn = "upload_via_curl" =>
             /\ stack[i].pc = "small_fetch" => stack[i].url \in SmallUrls
             /\ stack[i].pc = "small_verify" =>
                   /\ stack[i].url \in SmallUrls
                   /\ xfer_ok
                   /\ last_cmd = [kind |-> "fetch", arg |-> stack[i].url,
                                  dest |-> stack[i].remote]
    /\ (call.fn = "upload_via_curl" /\ count["relay_small"] > 0) =>
          /\ count["fetch"] <= count["relay_small"]
          /\ count["verify"] <= count["fetch"]
          /\ count["remote_cmd"] = count["fetch"] + count["verify"]
          /\ result = "returned" =>
                /\ count["verify"] >= 1
                /\ xfer_ok /\ verified
                /\ last_cmd.kind = "verify"
                /\ count["relay_small"] = 1 =>
                      (count["fetch"] = 1 /\ count["verify"] = 1 /\ count["sleep"] = 0)

\* C17, part 2: the steps of a small-tier attempt: the first command after
\* the upload is the fetch of the URL held, the check follows the fetch, and
\* the only return of the tier is after a check that reported 'exists'.
C17_SmallTierStep ==
    /\ At("upload_via_curl", "small_upload") =>
          /\ last_cmd' = last_cmd
          /\ (Len(stack') = Len(stack) /\ Top'.pc = "small_fetch") =>
                Top'.url \in SmallUrls
    /\ At("upload_via_curl", "small_fetch") =>
          /\ last_cmd' = [kind |-> "fetch", arg |-> Top.url, dest |-> Top.remote]
          /\ (Len(stack') = Len(stack) /\ Top'.pc = "small_verify") => xfer_ok'
    /\ At("upload_via_curl", "small_verify") =>
          last_cmd' = [kind |-> "verify", arg |-> Top.remote, dest |-> Top.remote]
    /\ (stack # <<>> /\ Top.fn = "upload_via_curl" /\ Top.pc \in SmallPcs /\ TopReturns) =>
          (Top.pc = "small_verify" /\ verified')

\* C17: within one small-tier relay attempt the fetch is issued only after
\* the relay-host upload succeeded and holds the URL that upload returned;
\* the non-empty-file check is issued only after the fetch reported
\* 'success'; the call returns only after that check reported 'exists'.  A
\* relay upload that succeeds on its first attempt makes one relay-host
\* upload, one fetch and one check.
C17_SmallTierOrder == [](C17_SmallTierState) /\ [][C17_SmallTierStep]_vars

\* C17 witness: the first attempt succeeded.
C17_Witness ==
    /\ call.fn = "upload_via_curl"
    /\ result = "returned"
    /\ count["relay_small"] = 1
    /\ count["fetch"] = 1
    /\ count["verify"] = 1
    /\ last_cmd.kind = "verify"

\* C19, part 1: a direct upload or download raises its fatal error only when
\* max_retries secure copies have been made.
C19_FatalOnlyWhenExhausted ==
    /\ \A i \in DOMAIN stack :
          (stack[i].fn \in {"upload_file", "download_file"} /\ stack[i].pc = "exhausted") =>
             stack[i].attempt = Max0(stack[i].max_retries)
    /\ (call.fn \in {"upload_file", "download_file"} /\ result = "raised"
        /\ error.line \in {309, 561}) =>
          (error.type = "RuntimeError" /\ count["scp"] = Max0(call.max_retries))

\* C19, part 2: an attempt whose copy exited 0 and whose verification failed
\* raises nothing: the method goes to the end of the iteration, and from
\* there, after the backoff, to the head of the loop for the next attempt.
C19_FailedVerificationStep ==
    \A fn \in {"upload_file", "download_file"} :
        /\ (At(fn, "verify") /\ ~verified') =>
              /\ xfer_ok
              /\ Len(stack') = Len(stack)
              /\ Top'.pc = "backoff"
              /\ Top'.attempt = Top.attempt
              /\ UNCHANGED control
        /\ At(fn, "backoff") =>
              /\ Len(stack') = Len(stack)
              /\ Top'.pc = "scp_loop"
              /\ Top'.attempt = Top.attempt + 1
              /\ UNCHANGED control
              /\ slept' = IF Top.attempt < Top.max_retries - 1
                          THEN slept + BackoffUnit * (Top.attempt + 1) ELSE slept
        /\ At(fn, "scp_loop") =>
              /\ Len(stack') = Len(stack)
              /\ Top'.pc = IF Top.attempt < Top.max_retries THEN "scp" ELSE "exhausted"
              /\ UNCHANGED control

\* C19: in the direct upload and download loops an attempt whose copy
\* command exits successfully and whose verification fails does not raise:
\* it counts as a failed attempt, the loop goes on to the next attempt after
\* the usual backoff, and the fatal error is raised only after all
\* max_retries attempts.
C19_VerificationMissRetried ==
    [](C19_FatalOnlyWhenExhausted) /\ [][C19_FailedVerificationStep]_vars

\* C19 witness: a download whose last copy exited 0 without leaving the
\* file, after max_retries attempts.
C19_Witness ==
    /\ call.fn = "download_file"
    /\ call.max_retries = MaxRetries
    /\ result = "raised"
    /\ error.line = 561
    /\ count["scp"] = MaxRetries
    /\ xfer_ok /\ ~verified

\* The transfers of an archive counted so far.
Transfers ==
    <<count["relay_small"], count["relay_lookup"], count["relay_large"], count["input"],
      count["fetch"], count["scp"]>>

\* C20, part 1: in upload_directory the archive is made once and extracted
\* at most once; a call that failed at the archive made no transfer, and one
\* that failed at the extraction issued the extraction command once.
C20_DirectoryFailures ==
    call.fn = "upload_directory" =>
        /\ count["tar"] <= 1
        /\ count["extract"] <= 1
        /\ \A i \in DOMAIN stack :
              (stack[i].fn = "upload_directory" /\ stack[i].pending.line = 587) =>
                 (Transfers = <<0, 0, 0, 0, 0, 0>> /\ count["extract"] = 0)
        /\ (result = "raised" /\ error.line = 587) =>
              /\ error.type = "CalledProcessError"
              /\ Transfers = <<0, 0, 0, 0, 0, 0>>
              /\ count["extract"] = 0
              /\ count["sleep"] = 0
        /\ (result = "raised" /\ error.line = 611) =>
              (error.type = "RuntimeError" /\ count["extract"] = 1 /\ count["tar"] = 1)

\* C20, part 2: a failed archive creation and a failed extraction lead to
\* the cleanup and out of the method, and once the extraction command has
\* been issued no transfer follows.
C20_NoRetryStep ==
    /\ (At("upload_directory", "tar") /\ Top'.pc # "relay") =>
          (Top'.pc = "finally" /\ Top'.pending = Exc("CalledProcessError", 587, TempArchive))
    /\ At("upload_directory", "extract") =>
          /\ Len(stack') = Len(stack)
          /\ Top'.pc = "finally"
          /\ count'["extract"] = 1
    /\ (call.fn = "upload_directory" /\ call' = call /\ count["extract"] = 1) =>
          (Transfers' = Transfers /\ count'["extract"] = 1)

\* C20: directory-level failures of upload_directory are fatal and not
\* retried: if the archive creation fails no transfer is attempted, and if
\* the extraction does not report 'success' the call raises, the extraction
\* command issued once and the transfer of the archive not repeated,
\* whatever max_retries is.
C20_DirectoryLevelFatal == [](C20_DirectoryFailures) /\ [][C20_NoRetryStep]_vars

\* C20 witness: the extraction failed after a relay upload that succeeded on
\* its second attempt.
C20_Witness ==
    /\ call.fn = "upload_directory"
    /\ call.max_retries = MaxRetries
    /\ result = "raised"
    /\ error.line = 611
    /\ count["extract"] = 1
    /\ count["relay_small"] = 2
    /\ count["scp"] = 0

\* C21, part 1: where a call of upload_file stands, and what has been done by
\* then: nothing before the connection is ensured, the mkdir of the remote
\* parent directory once before the relay uploader starts, no secure copy
\* before the relay uploader has raised; a call that returned without a
\* secure copy was verified by the relay uploader, and one that raised at
\* line 309 made max_retries secure copies.
C21_StepsSoFar ==
    (call.fn = "upload_file" /\ stack # <<>>) =>
        /\ stack[1].fn = "upload_file"
        /\ stack[1].pc \in {"start", "ensure"} => count = NoCounts
        /\ stack[1].pc = "mkdir" =>
              /\ count["remote_cmd"] = 0
              /\ Transfers = <<0, 0, 0, 0, 0, 0>>
              /\ Len(stack) = 1 => is_connected
        /\ stack[1].pc = "relay" =>
              /\ is_connected
              /\ count["mkdir"] = 1
              /\ count["remote_cmd"] = 1
              /\ last_cmd = [kind |-> "mkdir", arg |-> RemotePath, dest |-> RemotePath]
              /\ Transfers = <<0, 0, 0, 0, 0, 0>>
        /\ stack[1].pc = "relay_done" => (count["mkdir"] = 1 /\ count["scp"] = 0)
        /\ stack[1].pc \in DirectPcs => count["mkdir"] = 1
        /\ count["scp"] > 0 => stack[1].pc \in DirectPcs

\* C21, part 1, for a call that has finished.
C21_Outcome ==
    (call.fn = "upload_file" /\ Finished) =>
        /\ count["scp"] > 0 => count["mkdir"] = 1
        /\ (result = "returned" /\ count["scp"] = 0) =>
              (verified /\ last_cmd.kind = "verify" /\ count["mkdir"] = 1)
        /\ (result = "returned" /\ count["scp"] > 0) => (xfer_ok /\ verified)
        /\ (result = "raised" /\ error.line = 309) =>
              (error.type = "RuntimeError" /\ count["scp"] = Max0(call.max_retries))

\* C21, part 2: the steps between the parts of upload_file: each part hands
\* over to the next one; when the relay uploader has returned, upload_file
\* returns with the secure copies where they were; when it has raised, the
\* direct path begins; the end of the direct loop raises.
C21_Step ==
    /\ At("upload_file", "start") =>
          (Raising("FileNotFoundError", 231)
           \/ (Len(stack') = Len(stack) /\ Top'.pc = "ensure"))
    /\ At("upload_file", "ensure") =>
          (Len(stack') = Len(stack) + 1 /\ Top'.fn = "_ensure_ssh_access"
           /\ stack'[Len(stack)].pc = "mkdir")
    /\ At("upload_file", "mkdir") =>
          (count'["mkdir"] = count["mkdir"] + 1 /\ Top'.pc = "relay")
    /\ At("upload_file", "relay") =>
          (Len(stack') = Len(stack) + 1 /\ Top'.fn = "upload_via_curl"
           /\ stack'[Len(stack)].pc = "relay_done" /\ count' = count)
    /\ At("upload_file", "relay_done") =>
          (Returning /\ count'["scp"] = count["scp"])
    /\ Caught("upload_file", "relay_done") =>
          (Len(stack') = Len(stack) /\ Top'.pc = "ssh_info" /\ exc' = NoExc
           /\ count' = count)
    /\ At("upload_file", "exhausted") => Raising("RuntimeError", 309)

\* C21: upload_file performs its steps in the order: ensure connection,
\* create the remote parent directory, relay uploader, and only then (on
\* relay failure) direct transfer.  If the relay uploader succeeds,
\* upload_file returns and no secure-copy command is ever executed; if the
\* direct transfer also exhausts its retries, the call raises.
C21_UploadOrder == [](C21_StepsSoFar /\ C21_Outcome) /\ [][C21_Step]_vars

\* C21 witness: the relay uploader succeeded at its second attempt, and
\* upload_file returned without a secure copy.
C21_Witness ==
    /\ call.fn = "upload_file"
    /\ call.max_retries = MaxRetries
    /\ result = "returned"
    /\ count["mkdir"] = 1
    /\ count["relay_small"] = 2
    /\ count["scp"] = 0
    /\ verified


\* The public operations of a handler.
PublicOperations ==
    {"upload_file", "upload_via_curl", "download_file", "upload_directory",
     "download_directory", "list_remote_files"}

\* C22, part 1: a handler exists only when the session is connected, and the
\* session the SSH manager reports is then the connected one.
C22_HandlersAreConnected ==
    /\ handlers # {} => is_connected
    /\ is_connected <=> conn.status = "connected"
    /\ (call.fn \in PublicOperations /\ count["remote_cmd"] > 0) => is_connected

\* C22, part 2: a step of a public operation that issues a remote command is
\* taken with the session connected, and a step that changes the session is
\* a step of _ensure_ssh_access.
C22_Step ==
    /\ (call' = call /\ count'["remote_cmd"] # count["remote_cmd"]) =>
          /\ call.fn \in PublicOperations
          /\ is_connected
          /\ conn.status = "connected"
    /\ <<is_connected, conn>>' # <<is_connected, conn>> =>
          (stack # <<>> /\ Top.fn = "_ensure_ssh_access")
    /\ (stack # <<>> /\ Top.fn \in PublicOperations) =>
          <<is_connected, conn>>' = <<is_connected, conn>>

\* C22: the session state is mutated only by the connection manager and is
\* checked before remote commands are issued: no public operation
\* (upload_file, upload_via_curl, download_file, upload_directory,
\* download_directory, list_remote_files) issues a remote command while the
\* session state is not connected, and none of them changes the session
\* state other than through _ensure_ssh_access.
C22_SessionDiscipline == [](C22_HandlersAreConnected) /\ [][C22_Step]_vars

\* C22 witness: upload_via_curl, which does not call _ensure_ssh_access
\* itself, has issued its fetch command.
C22_Witness ==
    /\ call.fn = "upload_via_curl"
    /\ stack # <<>>
    /\ Top.pc = "small_verify"
    /\ count["fetch"] = 1
    /\ count["handshake"] = 0
    /\ is_connected


\* The status object _get_instance_ip works on (a status that json.loads
\* accepts, or the structure handed over).
LoadedStatus == LoadStatus(Top.status_data).v

\* C23: the list of instance records is taken from the first status shape
\* present, in the fixed order top-level 'instances' list, top-level 'data'
\* list, 'data.instances'; first match wins: once a higher-priority shape is
\* present the later shapes are not consulted, even when the requested
\* instance id occurs only in a later shape, and the result is then
\* not-found.  (A key whose value is no list is not a shape present.)
C23_FirstShapeWins ==
    At("_get_instance_ip", "done") =>
        /\ Top.shape.form \in ShadowedForms =>
              /\ ExtractInstances(LoadedStatus).v = JList(<<OtherRecord>>)
              /\ Top.ret = NotFound
              /\ result = "returned"
        /\ Top.shape.form \in ListedForms \cup (TwoKeyForms \ ShadowedForms) =>
              /\ ExtractInstances(LoadedStatus).v = JList(<<OtherRecord, Top.record>>)
              /\ Top.ret = ResolveRecord(Top.record)
        /\ Top.shape.form = "unlisted" => Top.ret = NotFound

\* C23 witness: the instances list holds another instance only, the data
\* list the record asked for, which has a usable command.
C23_Witness ==
    /\ At("_get_instance_ip", "done")
    /\ Top.shape = [form |-> "instances,data*", text |-> FALSE]
    /\ Top.record = RecordOf(Field("sshCommand", JStr(Cmd(HostH1, NoPort))), NoField)
    /\ ResolveRecord(Top.record) = Found(JStr(HostH1), DefaultPort)
    /\ Top.ret = NotFound


\* The local path of the upload in progress does not exist.
UploadOfMissingPath ==
    /\ call.fn \in {"upload_file", "upload_directory"}
    /\ call.local \notin fs

\* C24, part 1: an upload of a local path that does not exist never gets
\* past its first statement: no method is called from it, nothing is counted
\* (no key check, status request, handshake, remote command, relay call,
\* secure copy or sleep), and it ends with the error of line 231 or 572.
C24_NothingDone ==
    UploadOfMissingPath =>
        /\ count = NoCounts
        /\ last_cmd = NoCmd
        /\ stack # <<>> =>
              (Len(stack) = 1 /\ Top.fn = call.fn /\ Top.pc = "start")
        /\ Finished =>
              /\ result = "raised"
              /\ error \in {Exc("FileNotFoundError", 231, LocalFile),
                            Exc("NotADirectoryError", 572, LocalDir)}
              /\ error.line = 231 <=> call.fn = "upload_file"

\* C24, part 2: the first step of upload_file and of upload_directory on a
\* path that does not exist raises, and the steps of such a call leave the
\* session as it is.
C24_Step ==
    /\ (At("upload_file", "start") /\ Top.local \notin fs) =>
          (Raising("FileNotFoundError", 231) /\ count' = count /\ last_cmd' = last_cmd)
    /\ (At("upload_directory", "start") /\ Top.local \notin fs) =>
          (Raising("NotADirectoryError", 572) /\ count' = count /\ last_cmd' = last_cmd)
    /\ (UploadOfMissingPath /\ call' = call) =>
          (is_connected' = is_connected /\ conn' = conn /\ fs' = fs)

\* C24: for upload, the local path must exist before the request starts:
\* upload_file and upload_directory called on a non-existent local path
\* raise not-found before any connection attempt, any remote command
\* (including the remote mkdir) and any transfer attempt, leaving the
\* session state unchanged.
C24_LocalPathFirst == [](C24_NothingDone) /\ [][C24_Step]_vars

\* C24 witness: upload_directory of a directory that does not exist has
\* raised.
C24_Witness ==
    /\ call.fn = "upload_directory"
    /\ LocalDir \notin fs
    /\ result = "raised"
    /\ error = Exc("NotADirectoryError", 572, LocalDir)
    /\ count = NoCounts


\* C25, part 1: when the fallback of upload_directory is in its direct path,
\* the remote directory has been made twice and two rounds of the relay
\* uploader lie behind; a round of the two lower tiers made max_retries
\* relay attempts and slept max_retries - 1 times, a round of the top tier
\* asked for a URL once.
C25_TwoRelayRounds ==
    call.fn = "upload_directory" =>
        \A i \in DOMAIN stack :
            (stack[i].fn = "upload_file" /\ stack[i].pc \in DirectPcs) =>
                /\ i = 2
                /\ stack[i].local = TempArchive
                /\ stack[i].max_retries = call.max_retries
                /\ count["mkdir"] = 2
                /\ count["input"] <= 2
                /\ RelayAttempts = (2 - count["input"]) * Max0(call.max_retries)
                /\ (stack[i].pc = "scp" /\ stack[i].attempt = 0) =>
                      /\ count["scp"] = 0
                      /\ count["sleep"] = (2 - count["input"]) * (call.max_retries - 1)

\* C25, part 2: when the relay uploader called by upload_directory has
\* raised, upload_file is called from its first statement, with the archive
\* and the caller's max_retries, no secure copy having been made.
C25_FallbackStep ==
    Caught("upload_directory", "relay_done") =>
        /\ Len(stack') = Len(stack) + 1
        /\ Top' = Frame("upload_file", Top.self, TempArchive, RemoteArchive,
                        call.max_retries)
        /\ exc' = NoExc
        /\ count["mkdir"] = 1
        /\ count["scp"] = 0
        /\ count' = count

\* C25: in upload_directory, when every relay attempt fails, the fallback is
\* upload_file, which runs the relay uploader again before any secure copy:
\* the relay uploader is attempted 2 * max_retries times in total (two full
\* retry rounds with their backoff sleeps) before the first direct
\* secure-copy attempt, and the remote parent directory is created a second
\* time.
C25_RelayRunsTwice == [](C25_TwoRelayRounds) /\ [][C25_FallbackStep]_vars

\* C25 witness: the first secure copy is about to be made, after
\* 2 * max_retries failed relay attempts.
C25_Witness ==
    /\ call.fn = "upload_directory"
    /\ call.max_retries = MaxRetries
    /\ At("upload_file", "scp")
    /\ Top.attempt = 0
    /\ count["relay_small"] = 2 * MaxRetries
    /\ count["sleep"] = 2 * (MaxRetries - 1)
    /\ count["mkdir"] = 2
    /\ count["scp"] = 0


\* The session is the one a handler of instance "A" made: only the record of
\* "A" resolves to host h1, port 2200.
SessionToA ==
    /\ is_connected
    /\ conn.status = "connected"
    /\ conn.host = JStr(HostH1)
    /\ conn.port = 2200

\* The places of upload_file and download_file after ssh_info was read.
AfterSshInfo == (DirectPcs \ {"ssh_info"}) \cup {"pre_verify"}

\* C26, part 1: while the session to "A" is there, a handler of "B" exists
\* or is made without a key check, a status request or a handshake, and
\* wherever a direct transfer of "B" stands after reading its connection
\* info, the host, port and username it holds for the secure copy are those
\* of the session.
C26_SessionOfA ==
    (call.self = "B" /\ SessionToA) =>
        /\ count["key_check"] = 0
        /\ count["get_status"] = 0
        /\ count["handshake"] = 0
        /\ \A i \in DOMAIN stack :
              /\ stack[i].self = "B"
              /\ (stack[i].fn \in {"upload_file", "download_file"}
                  /\ stack[i].pc \in AfterSshInfo) =>
                    /\ stack[i].host = conn.host
                    /\ stack[i].port = conn.port
                    /\ stack[i].user = conn.username
                    /\ stack[i].host # JStr(HostH2)

\* C26, part 2: with the session to "A", _ensure_ssh_access of a handler of
\* "B" returns at once, and the read of the connection info by a transfer of
\* "B" yields the session's; no step of "B" changes the session.
C26_Step ==
    (stack # <<>> /\ Top.self = "B" /\ SessionToA) =>
        /\ At("_ensure_ssh_access", "start") => (Returning /\ count' = count)
        /\ (At("upload_file", "ssh_info") \/ At("download_file", "ssh_info")) =>
              /\ Len(stack') = Len(stack)
              /\ Top'.host = conn.host
              /\ Top'.port = conn.port
              /\ Top'.user = conn.username
        /\ conn' = conn
        /\ is_connected' = is_connected

\* C26: the session state is a single process-wide value shared by all
\* handler instances, not keyed by instance id: if a handler for instance A
\* has connected, then constructing or using a handler for a different
\* instance B performs no endpoint resolution and no handshake for B, and
\* B's direct transfers build their secure-copy commands from the host, port
\* and username of the session to A.
C26_SharedSession == [](C26_SessionOfA) /\ [][C26_Step]_vars

\* C26 witness: a handler of "B", made after the handler of "A" connected,
\* is about to run the secure copy of an upload to the host of "A".
C26_Witness ==
    /\ handlers = {"A", "B"}
    /\ SessionToA
    /\ call.fn = "upload_file"
    /\ call.self = "B"
    /\ At("upload_file", "scp")
    /\ Top.host = JStr(HostH1)
    /\ Top.port = 2200
    /\ Top.user = conn.username
    /\ GetInstanceIp(StatusInputs[3], "B") = Found(JStr(HostH2), DefaultPort)


\* A call of one of the three methods with a retry loop, with max_retries
\* zero or negative.
ZeroRetries ==
    /\ call.fn \in {"upload_file", "upload_via_curl", "download_file"}
    /\ call.max_retries <= 0

\* The errors raised after a retry loop: lines 309, 481, 561.
ExhaustedLines == {309, 481, 561}

\* The errors a call raises before it reaches its retry loop: the local file
\* is not there (231, 323), SSH_PRIVATE_KEY_PATH is unset (261, 509), the
\* local directory cannot be made (496), the remote file is reported absent
\* (518).
EarlierLines == {231, 323, 261, 509, 496, 518}

\* C27 as claimed: with max_retries <= 0 no relay-host call, secure copy or
\* sleep occurs, upload_via_curl issues no remote command for a file under
\* 2000 MB, and none of upload_file, upload_via_curl (for a file under 2000
\* MB) and download_file returns: a call that reaches its retry loop raises
\* the retry-exhausted error.
C27_ZeroRetriesNeverReturn ==
    (ZeroRetries /\ ~(call.fn = "upload_via_curl" /\ count["input"] > 0)) =>
        /\ RelayAttempts = 0
        /\ count["relay_large"] = 0
        /\ count["scp"] = 0
        /\ count["sleep"] = 0
        /\ call.fn = "upload_via_curl" => count["remote_cmd"] = 0
        /\ result # "returned"
        /\ (result = "raised" /\ error.line \notin EarlierLines) =>
              error.line \in ExhaustedLines

\* C27, amended, part 1: with max_retries <= 0 no relay-host call, no secure
\* copy and no sleep occurs.  For a file under 2000 MB (no URL is asked for)
\* upload_via_curl issues no remote command, upload_file none but its mkdir
\* and download_file none but its up-front check; none of the three returns,
\* and each raises the error that follows its loop unless an earlier
\* statement raised.  Only the top tier, which has no loop, can make
\* upload_via_curl and upload_file return.
C27_NoAttempt ==
    ZeroRetries =>
        /\ RelayAttempts = 0
        /\ count["relay_large"] = 0
        /\ count["scp"] = 0
        /\ count["sleep"] = 0
        /\ count["input"] <= 1
        /\ count["input"] = 0 =>
              /\ count["fetch"] = 0
              /\ count["verify"] = 0
              /\ count["remote_cmd"] = count["mkdir"] + count["pre_verify"]
              /\ call.fn = "upload_via_curl" => count["remote_cmd"] = 0
              /\ result # "returned"
              /\ result = "raised" =>
                    /\ error.line \in ExhaustedLines \cup EarlierLines
                    /\ error.line = (CASE call.fn = "upload_file" -> 309
                                       [] call.fn = "upload_via_curl" -> 481
                                       [] call.fn = "download_file" -> 561)
                       \/ error.line \in EarlierLines
                    /\ error.line \in ExhaustedLines => error.type = "RuntimeError"
        /\ result = "returned" =>
              /\ call.fn # "download_file"
              /\ count["input"] = 1
              /\ xfer_ok /\ verified
        /\ \A i \in DOMAIN stack :
              stack[i].pc \notin {"small_upload", "large_server", "scp", "verify",
                                  "backoff", "small_backoff", "large_backoff"}

\* C27, amended, part 2: with max_retries <= 0 the head of each retry loop
\* leads to the raise that follows the loop, and that raise is the next
\* step.
C27_LoopStep ==
    ZeroRetries =>
        /\ \A h \in LoopHeads :
              At(h[1], h[2]) =>
                 (Len(stack') = Len(stack) /\ Top'.pc = "exhausted" /\ count' = count)
        /\ At("upload_via_curl", "exhausted") => Raising("RuntimeError", 481)
        /\ At("upload_file", "exhausted") => Raising("RuntimeError", 309)
        /\ At("download_file", "exhausted") => Raising("RuntimeError", 561)

\* C27, amended: with max_retries <= 0 the retry loops execute zero times:
\* no relay-host call is made, no secure-copy command is executed and no
\* backoff sleep occurs.  For a file under 2000 MB upload_via_curl issues no
\* remote command and none of upload_file, upload_via_curl and download_file
\* returns: each raises the retry-exhausted error, unless an earlier
\* statement of the call raised first (local file not found, key path
\* unset, local directory not made, remote file reported absent).  For a
\* file of 2000 MB or more the manual path, which has no loop, can make
\* upload_via_curl and upload_file return.
C27_ZeroRetries == [](C27_NoAttempt) /\ [][C27_LoopStep]_vars

\* C27 witness: upload_file with max_retries 0 of a file under 2000 MB has
\* raised at line 309, its mkdir the only remote command.
C27_Witness ==
    /\ call.fn = "upload_file"
    /\ call.max_retries = 0
    /\ result = "raised"
    /\ error = Exc("RuntimeError", 309, LocalFile)
    /\ count["input"] = 0
    /\ count["mkdir"] = 1
    /\ count["remote_cmd"] = 1
    /\ count["scp"] = 0


=============================================================================
